---------------------------- MODULE Spec2Model ----------------------------
(***************************************************************************)
(* Verification model of the mini-os graphics/display stack:               *)
(*   - pixel surfaces (gpu.h back buffer, graphics.h direct framebuffer),  *)
(*   - alpha blending (gpu_blend, color_blend),                            *)
(*   - the presentation pipeline (gpu_present),                            *)
(*   - the layered compositor (display.h),                                 *)
(*   - the PCI bus enumerator (pci.h part of kernel.c),                    *)
(*   - the hardware adapter resolution (gpu_hw.h).                         *)
(* Memory is modelled byte by byte; integers keep their C width where a    *)
(* value is stored into a narrower type.  A 32-bit word (Color, a pixel of *)
(* a layer) is the tuple of its four bytes, least significant first, so    *)
(* 0xAARRGGBB is <<BB, GG, RR, AA>>.                                       *)
(***************************************************************************)
EXTENDS Integers, Sequences, FiniteSets, TLC

VARIABLES
    \* ---- surfaces (gpu.h, graphics.h) ----
    info,           \* struct BootInfo at BOOTINFO_ADDR (the fb_* fields)
    g_gpu,          \* GPUDevice g_gpu
    g_backbuffer,   \* Framebuffer g_backbuffer (descriptor)
    g_viewport,     \* Viewport g_viewport
    g_ctx,          \* GraphicsContext g_ctx
    back_mem,       \* the bytes at BACKBUFFER_ADDR, offset -> byte
    front_mem,      \* the bytes at info->fb_addr (device front buffer)
    last,           \* the last operation: its name, arguments, result and accesses
    steps,          \* number of operations performed so far
    \* ---- alpha blend (pure functions) ----
    blend_in,       \* arguments <<fg, bg, alpha>> of the blend under evaluation
    blend_out,      \* [gpu |-> gpu_blend(..), gfx |-> color_blend(..)] or "none"
    \* ---- compositor (display.h) ----
    g_display,      \* Display g_display (geometry, counters, cursor, layer attributes)
    layer_buf,      \* the five layer pixel buffers, layer -> (index -> ARGB word)
    g_tick_count,   \* g_tick_count
    comp_out,       \* the accumulator display_composite handed to gpu_put_pixel, per pixel
    \* ---- PCI bus and hardware adapter (kernel.c pci part, gpu_hw.h) ----
    pci_hw,         \* configuration space of bus 0: the device in each slot, command registers
    pci_devices,    \* PCIDevice pci_devices[PCI_MAX_DEVICES]
    pci_device_count,
    pci_log,        \* what the last bus operation did (table indices written, runs, ...)
    bochs_regs,     \* Bochs VBE Dispi interface behind ports 0x1CE/0x1CF: latched index, registers
    g_gpu_hw,       \* GPUHardware g_gpu_hw
    hw_ret,         \* return value of the last gpu_hw_init / gpu_hw_set_mode, or "none"
    pci_calls       \* the activations of pci_check_device in progress: position and locals

surfVars == <<info, g_gpu, g_backbuffer, g_viewport, g_ctx, back_mem, front_mem, last, steps>>
blendVars == <<blend_in, blend_out>>
dispVars == <<g_display, layer_buf, g_tick_count, comp_out>>
pciVars ==
    <<pci_hw, pci_devices, pci_device_count, pci_log, bochs_regs, g_gpu_hw, hw_ret, pci_calls>>
vars == <<surfVars, blendVars, dispVars, pciVars>>

-----------------------------------------------------------------------------
(* Bounds of the model *)

\* number of operations explored after initialisation
MaxSteps == 2

-----------------------------------------------------------------------------
(* Fixed-width integer helpers *)

Pow2(n) == 2 ^ n

U8(v) == v % 256

U16(v) == v % 65536

Shr(v, n) == v \div Pow2(n)

RECURSIVE BitAndRec(_, _, _)
BitAndRec(a, b, n) ==
    IF n = 0 \/ a = 0 \/ b = 0 THEN 0
    ELSE (IF a % 2 = 1 /\ b % 2 = 1 THEN 1 ELSE 0) + 2 * BitAndRec(a \div 2, b \div 2, n - 1)

BitAnd(a, b) == BitAndRec(a, b, 32)

RECURSIVE BitOrRec(_, _, _)
BitOrRec(a, b, n) ==
    IF n = 0 THEN 0
    ELSE IF a = 0 THEN b
    ELSE IF b = 0 THEN a
    ELSE (IF a % 2 = 1 \/ b % 2 = 1 THEN 1 ELSE 0) + 2 * BitOrRec(a \div 2, b \div 2, n - 1)

BitOr(a, b) == BitOrRec(a, b, 32)

-----------------------------------------------------------------------------
(* types.h: colour macros *)

\* byte k (0..3) of the 32-bit value (v << n), for an int v >= 0 and n in {0, 8, 16, 24}
ShlByte(v, n, k) == IF 8 * k < n THEN 0 ELSE Shr(v, 8 * k - n) % 256

\* ((uint32_t)(r) << 16) | ((uint32_t)(g) << 8) | (uint32_t)(b)
RGB(r, g, b) ==
    [k \in 1..4 |->
        BitOr(BitOr(ShlByte(r, 16, k - 1), ShlByte(g, 8, k - 1)), ShlByte(b, 0, k - 1))]

RGBA(r, g, b, a) ==
    [k \in 1..4 |->
        BitOr(BitOr(BitOr(ShlByte(a, 24, k - 1), ShlByte(r, 16, k - 1)),
                    ShlByte(g, 8, k - 1)), ShlByte(b, 0, k - 1))]

\* variant: the red channel taken with the green channel's shift
GET_R_green_shift(c) == c[2]

GET_R(c) == c[3]

GET_G(c) == c[2]

GET_B(c) == c[1]

GET_A(c) == c[4]

\* the colour 0 (transparent black)
Zero32 == <<0, 0, 0, 0>>


-----------------------------------------------------------------------------
(* Byte memory: a buffer is a function offset -> byte; a store list is a   *)
(* sequence of <<offset, byte>> in program order.                          *)

Max(S) == CHOOSE m \in S : \A n \in S : n <= m

\* A load outside the buffer is undefined in C; the model answers 0 and records the
\* offset in the operation's read set.
Load8(mem, off) == IF off \in DOMAIN mem THEN mem[off] ELSE 0

\* Stores are applied in order (the last store to an offset wins); a store
\* outside the buffer leaves the buffer alone and stays visible in the write set.
ApplyStores(mem, st) ==
    [o \in DOMAIN mem |->
        LET hits == {i \in 1..Len(st) : st[i][1] = o}
        IN  IF hits = {} THEN mem[o] ELSE st[Max(hits)][2]]

StoreOffsets(st) == {st[i][1] : i \in 1..Len(st)}

RECURSIVE FlattenSeq(_)
FlattenSeq(ss) == IF ss = <<>> THEN <<>> ELSE Head(ss) \o FlattenSeq(Tail(ss))

-----------------------------------------------------------------------------
(* gpu.h: initialisation *)

gpu_detect_format(bpp) ==
    CASE bpp = 16 -> "PIXEL_FORMAT_RGB565"
      [] bpp = 24 -> "PIXEL_FORMAT_RGB888"
      [] bpp = 32 -> "PIXEL_FORMAT_XRGB8888"
      [] OTHER    -> "PIXEL_FORMAT_UNKNOWN"

\* gpu_init's precondition failure: no framebuffer available
gpu_init_fails(bi) == bi.fb_addr = 0 \/ bi.fb_width = 0 \/ bi.fb_height = 0

gpu_init_device(bi) ==
    [type             |-> "GPU_TYPE_VBE",
     format           |-> gpu_detect_format(bi.fb_bpp),
     framebuffer_addr |-> bi.fb_addr,
     width            |-> bi.fb_width,
     height           |-> bi.fb_height,
     pitch            |-> bi.fb_pitch,
     bpp              |-> bi.fb_bpp,
     bytes_per_pixel  |-> U8(bi.fb_bpp \div 8),
     framebuffer_size |-> bi.fb_pitch * bi.fb_height]

gpu_init_backbuffer(bi) ==
    [width  |-> bi.fb_width,
     height |-> bi.fb_height,
     pitch  |-> U16(bi.fb_width * U8(bi.fb_bpp \div 8)),
     bpp    |-> bi.fb_bpp]

gpu_init_viewport(bi) ==
    [x |-> 0, y |-> 0, width |-> bi.fb_width, height |-> bi.fb_height]

\* the number of bytes gpu_init's clear loop covers (the back buffer's extent)
gpu_init_clear_bytes(bb) == bb.pitch * bb.height

\* the clear loop of gpu_init: pitch * height zero bytes
gpu_init_clear(bb) == [o \in 0..(gpu_init_clear_bytes(bb) - 1) |-> 0]

\* graphics.h: gfx_init
gfx_init_ctx(bi) ==
    [width |-> bi.fb_width, height |-> bi.fb_height, pitch |-> bi.fb_pitch, bpp |-> bi.fb_bpp]

-----------------------------------------------------------------------------
(* gpu.h: back buffer pixel operations.  A put returns its store list, a    *)
(* get returns [ret |-> colour, rd |-> offsets read].                       *)

\* variant: the upper bound on x is not checked
gpu_put_pixel_no_xmax(x, y, color) ==
    IF x < 0 \/ y < 0 \/ y >= g_backbuffer.height THEN <<>>
    ELSE LET row == y * g_backbuffer.pitch IN
         IF g_backbuffer.bpp = 32 THEN
             [k \in 1..4 |-> <<row + 4 * x + (k - 1), color[k]>>]
         ELSE IF g_backbuffer.bpp = 24 THEN
             << <<row + x * 3, GET_B(color)>>,
                <<row + x * 3 + 1, GET_G(color)>>,
                <<row + x * 3 + 2, GET_R(color)>> >>
         ELSE IF g_backbuffer.bpp = 16 THEN
             LET v == U16(BitOr(BitOr(Shr(GET_R(color), 3) * 2048,
                                      Shr(GET_G(color), 2) * 32),
                                Shr(GET_B(color), 3)))
             IN  << <<row + 2 * x, v % 256>>, <<row + 2 * x + 1, Shr(v, 8)>> >>
         ELSE <<>>

gpu_put_pixel(x, y, color) ==
    IF x < 0 \/ x >= g_backbuffer.width \/ y < 0 \/ y >= g_backbuffer.height THEN <<>>
    ELSE LET row == y * g_backbuffer.pitch IN
         IF g_backbuffer.bpp = 32 THEN
             [k \in 1..4 |-> <<row + 4 * x + (k - 1), color[k]>>]
         ELSE IF g_backbuffer.bpp = 24 THEN
             << <<row + x * 3, GET_B(color)>>,
                <<row + x * 3 + 1, GET_G(color)>>,
                <<row + x * 3 + 2, GET_R(color)>> >>
         ELSE IF g_backbuffer.bpp = 16 THEN
             LET v == U16(BitOr(BitOr(Shr(GET_R(color), 3) * 2048,
                                      Shr(GET_G(color), 2) * 32),
                                Shr(GET_B(color), 3)))
             IN  << <<row + 2 * x, v % 256>>, <<row + 2 * x + 1, Shr(v, 8)>> >>
         ELSE <<>>

gpu_get_pixel(x, y) ==
    IF x < 0 \/ x >= g_backbuffer.width \/ y < 0 \/ y >= g_backbuffer.height
    THEN [ret |-> Zero32, rd |-> {}]
    ELSE LET row == y * g_backbuffer.pitch IN
         IF g_backbuffer.bpp = 32 THEN
             LET p == row + 4 * x
             IN  [ret |-> [k \in 1..4 |-> Load8(back_mem, p + (k - 1))],
                  rd  |-> p..(p + 3)]
         ELSE IF g_backbuffer.bpp = 24 THEN
             LET p == row + x * 3
             IN  [ret |-> RGB(Load8(back_mem, p + 2), Load8(back_mem, p + 1), Load8(back_mem, p)),
                  rd  |-> p..(p + 2)]
         ELSE IF g_backbuffer.bpp = 16 THEN
             LET p == row + 2 * x
                 v == Load8(back_mem, p) + 256 * Load8(back_mem, p + 1)
             IN  [ret |-> RGB((Shr(v, 11) % 32) * 8, (Shr(v, 5) % 64) * 4, (v % 32) * 8),
                  rd  |-> p..(p + 1)]
         ELSE [ret |-> Zero32, rd |-> {}]

\* variant: the weights of foreground and background exchanged
gpu_blend_swapped(fg, bg, alpha) ==
    LET inv == U8(255 - alpha)
    IN  RGB((GET_R(fg) * inv + GET_R(bg) * alpha) \div 255,
            (GET_G(fg) * inv + GET_G(bg) * alpha) \div 255,
            (GET_B(fg) * inv + GET_B(bg) * alpha) \div 255)

\* variant: division by 256 (a shift) in place of the division by 255
gpu_blend_shift8(fg, bg, alpha) ==
    LET inv == U8(255 - alpha)
    IN  RGB((GET_R(fg) * alpha + GET_R(bg) * inv) \div 256,
            (GET_G(fg) * alpha + GET_G(bg) * inv) \div 256,
            (GET_B(fg) * alpha + GET_B(bg) * inv) \div 256)

\* Alpha blending (alpha is a uint8_t; inv = 255 - alpha)
gpu_blend(fg, bg, alpha) ==
    LET inv == U8(255 - alpha)
    IN  RGB((GET_R(fg) * alpha + GET_R(bg) * inv) \div 255,
            (GET_G(fg) * alpha + GET_G(bg) * inv) \div 255,
            (GET_B(fg) * alpha + GET_B(bg) * inv) \div 255)

\* returns [st |-> stores, rd |-> offsets read, bg |-> colour read, or <<>>]
gpu_put_pixel_alpha(x, y, color) ==
    LET alpha == GET_A(color) IN
    IF alpha = 0 THEN [st |-> <<>>, rd |-> {}, bg |-> <<>>]
    ELSE IF alpha = 255 THEN [st |-> gpu_put_pixel(x, y, color), rd |-> {}, bg |-> <<>>]
    ELSE LET got == gpu_get_pixel(x, y)
         IN  [st |-> gpu_put_pixel(x, y, gpu_blend(color, got.ret, alpha)),
              rd |-> got.rd,
              bg |-> got.ret]

-----------------------------------------------------------------------------
(* graphics.h: direct framebuffer pixel operations (g_ctx, bytes at fb_addr) *)

gfx_put_pixel(x, y, color) ==
    IF x < 0 \/ x >= g_ctx.width \/ y < 0 \/ y >= g_ctx.height THEN <<>>
    ELSE LET row == y * g_ctx.pitch IN
         IF g_ctx.bpp = 32 THEN
             [k \in 1..4 |-> <<row + 4 * x + (k - 1), color[k]>>]
         ELSE IF g_ctx.bpp = 24 THEN
             << <<row + x * 3, GET_B(color)>>,
                <<row + x * 3 + 1, GET_G(color)>>,
                <<row + x * 3 + 2, GET_R(color)>> >>
         ELSE IF g_ctx.bpp = 16 THEN
             LET r5 == BitAnd(Shr(GET_R(color), 3), 31)
                 g6 == BitAnd(Shr(GET_G(color), 2), 63)
                 b5 == BitAnd(Shr(GET_B(color), 3), 31)
                 v  == U16(BitOr(BitOr(r5 * 2048, g6 * 32), b5))
             IN  << <<row + 2 * x, v % 256>>, <<row + 2 * x + 1, Shr(v, 8)>> >>
         ELSE <<>>

gfx_get_pixel(x, y) ==
    IF x < 0 \/ x >= g_ctx.width \/ y < 0 \/ y >= g_ctx.height
    THEN [ret |-> Zero32, rd |-> {}]
    ELSE LET row == y * g_ctx.pitch IN
         IF g_ctx.bpp = 32 THEN
             LET p == row + 4 * x
             IN  [ret |-> [k \in 1..4 |-> Load8(front_mem, p + (k - 1))],
                  rd  |-> p..(p + 3)]
         ELSE IF g_ctx.bpp = 24 THEN
             LET p == row + x * 3
             IN  [ret |-> RGB(Load8(front_mem, p + 2), Load8(front_mem, p + 1), Load8(front_mem, p)),
                  rd  |-> p..(p + 2)]
         ELSE IF g_ctx.bpp = 16 THEN
             LET p == row + 2 * x
                 v == Load8(front_mem, p) + 256 * Load8(front_mem, p + 1)
                 r == U8((Shr(v, 11) % 32) * 8)
                 g == U8((Shr(v, 5) % 64) * 4)
                 b == U8((v % 32) * 8)
             IN  [ret |-> RGB(r, g, b), rd |-> p..(p + 1)]
         ELSE [ret |-> Zero32, rd |-> {}]

color_blend(fg, bg, alpha) ==
    LET inv_alpha == U8(255 - alpha)
        r == U8((GET_R(fg) * alpha + GET_R(bg) * inv_alpha) \div 255)
        g == U8((GET_G(fg) * alpha + GET_G(bg) * inv_alpha) \div 255)
        b == U8((GET_B(fg) * alpha + GET_B(bg) * inv_alpha) \div 255)
    IN  RGB(r, g, b)

-----------------------------------------------------------------------------
(* Drawing primitives and presentation *)

\* the stores of a run of gpu_put_pixel calls, in call order
gpu_plot_all(pts, color) ==
    FlattenSeq([i \in 1..Len(pts) |-> gpu_put_pixel(pts[i][1], pts[i][2], color)])

\* the stores of a run of gfx_put_pixel calls, in call order
gfx_plot_all(pts, color) ==
    FlattenSeq([i \in 1..Len(pts) |-> gfx_put_pixel(pts[i][1], pts[i][2], color)])

\* gpu.h gpu_fill_circle: the (x, y) handed to gpu_put_pixel, in call order
gpu_fill_circle(cx, cy, r) ==
    FlattenSeq([yi \in 1..(2 * r + 1) |->
        FlattenSeq([xi \in 1..(2 * r + 1) |->
            LET y == -r + (yi - 1)
                x == -r + (xi - 1)
            IN  IF x * x + y * y <= r * r THEN << <<cx + x, cy + y>> >> ELSE <<>>])])

\* the two inner for-loops of gfx_fill_circle: i = a..b, put (i, y1) then (i, y2)
gfx_span_pair(a, b, y1, y2) ==
    FlattenSeq([k \in 1..(b - a + 1) |-> << <<a + (k - 1), y1>>, <<a + (k - 1), y2>> >>])

RECURSIVE gfx_fill_circle_loop(_, _, _, _, _)
gfx_fill_circle_loop(cx, cy, x, y, d) ==
    IF ~(x <= y) THEN <<>>
    ELSE gfx_span_pair(cx - x, cx + x, cy + y, cy - y)
         \o gfx_span_pair(cx - y, cx + y, cy + x, cy - x)
         \o (IF d < 0
             THEN gfx_fill_circle_loop(cx, cy, x + 1, y, d + 2 * x + 3)
             ELSE gfx_fill_circle_loop(cx, cy, x + 1, y - 1, d + 2 * (x - y) + 5))

\* variant: the sweep starts one row beyond the radius
gfx_fill_circle_from_r1(cx, cy, r) == gfx_fill_circle_loop(cx, cy, 0, r + 1, 1 - r)

\* graphics.h gfx_fill_circle: the (x, y) handed to gfx_put_pixel, in call order
gfx_fill_circle(cx, cy, r) == gfx_fill_circle_loop(cx, cy, 0, r, 1 - r)

\* gpu.h gpu_present: bytes copied per row
gpu_present_row_bytes(bb, gpu) == bb.width * gpu.bytes_per_pixel

\* variant: the destination row is addressed with the back buffer's pitch
gpu_present_one_pitch ==
    LET row_bytes == gpu_present_row_bytes(g_backbuffer, g_gpu)
        rows == [yy \in 1..g_backbuffer.height |->
                    [ii \in 1..row_bytes |->
                        <<(yy - 1) * g_backbuffer.pitch + (ii - 1),
                          Load8(back_mem, (yy - 1) * g_backbuffer.pitch + (ii - 1))>>]]
    IN  [st |-> FlattenSeq(rows),
         rd |-> {(yy - 1) * g_backbuffer.pitch + (ii - 1) :
                    yy \in 1..g_backbuffer.height, ii \in 1..row_bytes}]

\* gpu.h gpu_present: [st |-> stores into the front buffer, rd |-> back-buffer offsets read]
gpu_present ==
    LET row_bytes == gpu_present_row_bytes(g_backbuffer, g_gpu)
        rows == [yy \in 1..g_backbuffer.height |->
                    [ii \in 1..row_bytes |->
                        <<(yy - 1) * g_gpu.pitch + (ii - 1),
                          Load8(back_mem, (yy - 1) * g_backbuffer.pitch + (ii - 1))>>]]
    IN  [st |-> FlattenSeq(rows),
         rd |-> {(yy - 1) * g_backbuffer.pitch + (ii - 1) :
                    yy \in 1..g_backbuffer.height, ii \in 1..row_bytes}]

\* gpu.h gpu_set_viewport: the viewport after the call
gpu_set_viewport(x, y, w, h) == [x |-> x, y |-> y, width |-> w, height |-> h]

\* variant: the right and bottom edges of the viewport are not applied
gpu_clip_rect_no_far_edge(vp, r) ==
    LET x1 == IF r.x < vp.x THEN vp.x ELSE r.x
        y1 == IF r.y < vp.y THEN vp.y ELSE r.y
        x2 == r.x + r.width
        y2 == r.y + r.height
    IN  IF x1 >= x2 \/ y1 >= y2
        THEN [ret |-> 0, r |-> r]
        ELSE [ret |-> 1, r |-> [x |-> x1, y |-> y1, width |-> x2 - x1, height |-> y2 - y1]]

\* gpu.h gpu_clip_rect: the value returned and the rectangle left in *r
gpu_clip_rect(vp, r) ==
    LET vx2 == vp.x + vp.width
        vy2 == vp.y + vp.height
        x1  == IF r.x < vp.x THEN vp.x ELSE r.x
        y1  == IF r.y < vp.y THEN vp.y ELSE r.y
        x2  == IF r.x + r.width > vx2 THEN vx2 ELSE r.x + r.width
        y2  == IF r.y + r.height > vy2 THEN vy2 ELSE r.y + r.height
    IN  IF x1 >= x2 \/ y1 >= y2
        THEN [ret |-> 0, r |-> r]
        ELSE [ret |-> 1, r |-> [x |-> x1, y |-> y1, width |-> x2 - x1, height |-> y2 - y1]]

\* gpu.h gpu_present_rect: [st |-> stores into the front buffer, rd |-> back-buffer
\* offsets read]
gpu_present_rect(x, y, w, h) ==
    LET c == gpu_clip_rect(g_viewport, [x |-> x, y |-> y, width |-> w, height |-> h])
        r == c.r
        bytes == r.width * g_gpu.bytes_per_pixel
        src_row(dy) == (r.y + dy) * g_backbuffer.pitch + r.x * g_gpu.bytes_per_pixel
        dst_row(dy) == (r.y + dy) * g_gpu.pitch + r.x * g_gpu.bytes_per_pixel
        rows == [d \in 1..r.height |->
                    [ii \in 1..bytes |->
                        <<dst_row(d - 1) + (ii - 1), Load8(back_mem, src_row(d - 1) + (ii - 1))>>]]
    IN  IF c.ret = 0 THEN [st |-> <<>>, rd |-> {}]
        ELSE [st |-> FlattenSeq(rows),
              rd |-> {src_row(d - 1) + (ii - 1) : d \in 1..r.height, ii \in 1..bytes}]

-----------------------------------------------------------------------------
(* Surface state machine: the state after gpu_init() and gfx_init() on a   *)
(* valid handoff record, then pixel operations in any order.               *)

\* handoff records of the model: 3x2 pixels, each supported depth, front pitch
\* equal to or larger than the row width
SurfaceBootInfos ==
    {[fb_addr |-> 1073741824, fb_pitch |-> 3 * (bpp \div 8) + pad,
      fb_width |-> 3, fb_height |-> 2, fb_bpp |-> bpp, fb_type |-> 1] :
        bpp \in {16, 24, 32}, pad \in {0, 2}}

\* colours written by the operations of the model (0xFFFFFFFF, 0x80FF0000,
\* 0x64FF8040, 0x00123456): alpha 255, 128, 100 and 0
AlphaColors == {<<255, 255, 255, 255>>, <<0, 0, 255, 128>>, <<64, 128, 255, 100>>, <<86, 52, 18, 0>>}

\* colours of the plain pixel writes (0xFFFFFFFF, 0x00123456, 0x80FF0000)
PixelColors == {<<255, 255, 255, 255>>, <<86, 52, 18, 0>>, <<0, 0, 255, 128>>}

\* coordinates tried: inside, the last pixel, and one step outside on each side
TestCoords(w, h) ==
    {<<0, 0>>, <<1, 0>>, <<w - 1, h - 1>>,
     <<-1, 0>>, <<w, h - 1>>, <<0, -1>>, <<0, h>>}

\* coordinates of the alpha writes: two inside, two outside
AlphaCoords(w, h) == {<<0, 0>>, <<w - 1, h - 1>>, <<-1, 0>>, <<w, h - 1>>}

NoOp ==
    [op |-> "none", x |-> 0, y |-> 0, color |-> Zero32, r |-> 0, ret |-> Zero32,
     rd |-> {}, wr |-> {}, plotted |-> <<>>, bg |-> <<>>, rect |-> <<>>, spans |-> {},
     code |-> 0, calls |-> <<>>]

IdleSurface ==
    /\ info = "idle" /\ g_gpu = "idle" /\ g_backbuffer = "idle" /\ g_viewport = "idle"
    /\ g_ctx = "idle" /\ back_mem = <<>> /\ front_mem = <<>> /\ last = NoOp /\ steps = 0

IdleBlend == blend_in = "idle" /\ blend_out = "none"

IdleDisplay ==
    g_display = "idle" /\ layer_buf = <<>> /\ g_tick_count = 0 /\ comp_out = <<>>

IdlePci ==
    /\ pci_hw = "idle" /\ pci_devices = <<>> /\ pci_device_count = 0 /\ pci_log = "idle"
    /\ bochs_regs = "idle" /\ g_gpu_hw = "idle" /\ hw_ret = "none" /\ pci_calls = <<>>

InitSurfaceFrom(bi) ==
    /\ info = bi
    /\ g_gpu = gpu_init_device(bi)
    /\ g_backbuffer = gpu_init_backbuffer(bi)
    /\ g_viewport = gpu_init_viewport(bi)
    /\ g_ctx = gfx_init_ctx(bi)
    /\ back_mem = gpu_init_clear(gpu_init_backbuffer(bi))
    \* device memory is not cleared by the program: every byte holds 0xAA
    /\ front_mem = [o \in 0..(bi.fb_pitch * bi.fb_height - 1) |-> 170]
    /\ last = NoOp
    /\ steps = 0

Init ==
    /\ \E bi \in SurfaceBootInfos : InitSurfaceFrom(bi)
    /\ IdleBlend /\ IdleDisplay /\ IdlePci

Coords == TestCoords(info.fb_width, info.fb_height)

GpuPutPixel ==
    /\ steps < MaxSteps
    /\ \E p \in Coords, c \in PixelColors :
         LET st == gpu_put_pixel(p[1], p[2], c) IN
         /\ back_mem' = ApplyStores(back_mem, st)
         /\ last' = [NoOp EXCEPT !.op = "gpu_put_pixel", !.x = p[1], !.y = p[2],
                                 !.color = c, !.wr = StoreOffsets(st)]
    /\ steps' = steps + 1
    /\ UNCHANGED <<info, g_gpu, g_backbuffer, g_viewport, g_ctx, front_mem>>
    /\ UNCHANGED <<blendVars, dispVars, pciVars>>

GpuGetPixel ==
    /\ steps < MaxSteps
    /\ \E p \in Coords :
         LET got == gpu_get_pixel(p[1], p[2]) IN
         last' = [NoOp EXCEPT !.op = "gpu_get_pixel", !.x = p[1], !.y = p[2],
                              !.ret = got.ret, !.rd = got.rd]
    /\ steps' = steps + 1
    /\ UNCHANGED <<info, g_gpu, g_backbuffer, g_viewport, g_ctx, back_mem, front_mem>>
    /\ UNCHANGED <<blendVars, dispVars, pciVars>>

GfxPutPixel ==
    /\ steps < MaxSteps
    /\ \E p \in Coords, c \in PixelColors :
         LET st == gfx_put_pixel(p[1], p[2], c) IN
         /\ front_mem' = ApplyStores(front_mem, st)
         /\ last' = [NoOp EXCEPT !.op = "gfx_put_pixel", !.x = p[1], !.y = p[2],
                                 !.color = c, !.wr = StoreOffsets(st)]
    /\ steps' = steps + 1
    /\ UNCHANGED <<info, g_gpu, g_backbuffer, g_viewport, g_ctx, back_mem>>
    /\ UNCHANGED <<blendVars, dispVars, pciVars>>

GfxGetPixel ==
    /\ steps < MaxSteps
    /\ \E p \in Coords :
         LET got == gfx_get_pixel(p[1], p[2]) IN
         last' = [NoOp EXCEPT !.op = "gfx_get_pixel", !.x = p[1], !.y = p[2],
                              !.ret = got.ret, !.rd = got.rd]
    /\ steps' = steps + 1
    /\ UNCHANGED <<info, g_gpu, g_backbuffer, g_viewport, g_ctx, back_mem, front_mem>>
    /\ UNCHANGED <<blendVars, dispVars, pciVars>>

GpuPutPixelAlpha ==
    /\ steps < MaxSteps
    /\ \E p \in AlphaCoords(info.fb_width, info.fb_height), c \in AlphaColors :
         LET e == gpu_put_pixel_alpha(p[1], p[2], c) IN
         /\ back_mem' = ApplyStores(back_mem, e.st)
         /\ last' = [NoOp EXCEPT !.op = "gpu_put_pixel_alpha", !.x = p[1], !.y = p[2],
                                 !.color = c, !.rd = e.rd, !.wr = StoreOffsets(e.st),
                                 !.bg = e.bg]
    /\ steps' = steps + 1
    /\ UNCHANGED <<info, g_gpu, g_backbuffer, g_viewport, g_ctx, front_mem>>
    /\ UNCHANGED <<blendVars, dispVars, pciVars>>

GpuPresent ==
    /\ steps < MaxSteps
    /\ LET e == gpu_present IN
         /\ front_mem' = ApplyStores(front_mem, e.st)
         /\ last' = [NoOp EXCEPT !.op = "gpu_present", !.rd = e.rd, !.wr = StoreOffsets(e.st)]
    /\ steps' = steps + 1
    /\ UNCHANGED <<info, g_gpu, g_backbuffer, g_viewport, g_ctx, back_mem>>
    /\ UNCHANGED <<blendVars, dispVars, pciVars>>

\* centres and radii tried by the fill-circle actions
CircleCentres == {<<1, 1>>, <<0, 0>>, <<3, 1>>}

CircleRadii == {0, 1}

GpuFillCircle ==
    /\ steps < MaxSteps
    /\ \E p \in CircleCentres, r \in CircleRadii, c \in {<<255, 255, 255, 255>>} :
         LET pts == gpu_fill_circle(p[1], p[2], r)
             st  == gpu_plot_all(pts, c) IN
         /\ back_mem' = ApplyStores(back_mem, st)
         /\ last' = [NoOp EXCEPT !.op = "gpu_fill_circle", !.x = p[1], !.y = p[2], !.r = r,
                                 !.color = c, !.wr = StoreOffsets(st), !.plotted = pts]
    /\ steps' = steps + 1
    /\ UNCHANGED <<info, g_gpu, g_backbuffer, g_viewport, g_ctx, front_mem>>
    /\ UNCHANGED <<blendVars, dispVars, pciVars>>

GfxFillCircle ==
    /\ steps < MaxSteps
    /\ \E p \in CircleCentres, r \in CircleRadii, c \in {<<255, 255, 255, 255>>} :
         LET pts == gfx_fill_circle(p[1], p[2], r)
             st  == gfx_plot_all(pts, c) IN
         /\ front_mem' = ApplyStores(front_mem, st)
         /\ last' = [NoOp EXCEPT !.op = "gfx_fill_circle", !.x = p[1], !.y = p[2], !.r = r,
                                 !.color = c, !.wr = StoreOffsets(st), !.plotted = pts]
    /\ steps' = steps + 1
    /\ UNCHANGED <<info, g_gpu, g_backbuffer, g_viewport, g_ctx, back_mem>>
    /\ UNCHANGED <<blendVars, dispVars, pciVars>>

Next ==
    \/ GpuPutPixel
    \/ GpuGetPixel
    \/ GfxPutPixel
    \/ GfxGetPixel
    \/ GpuPutPixelAlpha
    \/ GpuPresent
    \/ GpuFillCircle
    \/ GfxFillCircle

Spec == Init /\ [][Next]_vars

\* viewports set by the model, <<x, y, width, height>>: the whole 3x2 surface,
\* parts of it, one pixel, and an empty one
Viewports == {<<0, 0, 3, 2>>, <<1, 0, 2, 2>>, <<0, 1, 3, 1>>, <<1, 1, 1, 1>>, <<0, 0, 2, 1>>,
              <<2, 1, 0, 0>>}

\* rectangles presented, <<x, y, width, height>>: inside, overhanging each side,
\* larger than the surface, outside it, and empty
PresentRects == {<<0, 0, 3, 2>>, <<-1, -1, 3, 2>>, <<1, 0, 5, 5>>, <<2, 1, 1, 1>>, <<0, 0, 2, 1>>,
                 <<-2, 0, 9, 1>>, <<3, 0, 2, 2>>, <<0, 0, 0, 2>>}

\* a call of gpu_set_viewport
GpuSetViewport ==
    /\ \E v \in Viewports :
          /\ g_viewport' = gpu_set_viewport(v[1], v[2], v[3], v[4])
          /\ g_viewport' # g_viewport
          /\ last' = [NoOp EXCEPT !.op = "gpu_set_viewport", !.rect = v]
    /\ UNCHANGED <<info, g_gpu, g_backbuffer, g_ctx, back_mem, front_mem, steps>>
    /\ UNCHANGED <<blendVars, dispVars, pciVars>>

\* a call of gpu_present_rect
GpuPresentRect ==
    /\ steps < MaxSteps
    /\ \E q \in PresentRects :
         LET e == gpu_present_rect(q[1], q[2], q[3], q[4]) IN
         /\ front_mem' = ApplyStores(front_mem, e.st)
         /\ last' = [NoOp EXCEPT !.op = "gpu_present_rect", !.rect = q, !.rd = e.rd,
                                 !.wr = StoreOffsets(e.st)]
    /\ steps' = steps + 1
    /\ UNCHANGED <<info, g_gpu, g_backbuffer, g_viewport, g_ctx, back_mem>>
    /\ UNCHANGED <<blendVars, dispVars, pciVars>>

NextRect == GpuFillCircle \/ GpuSetViewport \/ GpuPresentRect

SpecRect == Init /\ [][NextRect]_vars

-----------------------------------------------------------------------------
(* Properties of the pixel surfaces *)

InBounds(fb, x, y) == x >= 0 /\ x < fb.width /\ y >= 0 /\ y < fb.height

\* what a read returns after colour c was written, per format: the word itself
\* (32 bpp), its three colour bytes (24 bpp), its 5-6-5 truncation (16 bpp)
ExpectedReadback(bpp, c) ==
    CASE bpp = 32 -> c
      [] bpp = 24 -> <<c[1], c[2], c[3], 0>>
      [] bpp = 16 -> <<(c[1] \div 8) * 8, (c[2] \div 4) * 4, (c[3] \div 8) * 8, 0>>

BackBytes == 0..(g_backbuffer.pitch * g_backbuffer.height - 1)

FrontBytes == 0..(g_ctx.pitch * g_ctx.height - 1)

BackOps == {"gpu_put_pixel", "gpu_get_pixel", "gpu_put_pixel_alpha", "gpu_fill_circle"}

FrontOps == {"gfx_put_pixel", "gfx_get_pixel", "gfx_fill_circle"}

\* C1: for each supported format and each (x, y) inside the surface, a put of c
\* followed by a get at (x, y) returns c for 32 bpp, the same three colour bytes
\* for 24 bpp and the 5-6-5 truncated colour for 16 bpp, on the back buffer
\* (gpu_*) and on the direct framebuffer (gfx_*).
C1_PutGetRoundTrip ==
    /\ (last.op = "gpu_put_pixel" /\ InBounds(g_backbuffer, last.x, last.y))
          => gpu_get_pixel(last.x, last.y).ret = ExpectedReadback(g_backbuffer.bpp, last.color)
    /\ (last.op = "gfx_put_pixel" /\ InBounds(g_ctx, last.x, last.y))
          => gfx_get_pixel(last.x, last.y).ret = ExpectedReadback(g_ctx.bpp, last.color)

\* a 16 bpp write inside the surface whose read-back differs from the colour written
C1_Witness ==
    /\ last.op = "gfx_put_pixel" /\ InBounds(g_ctx, last.x, last.y) /\ g_ctx.bpp = 16
    /\ gfx_get_pixel(last.x, last.y).ret = <<248, 252, 248, 0>>
    /\ last.color = <<255, 255, 255, 255>>

\* C2: a put outside the surface bounds leaves every byte of both buffers
\* unchanged, a get outside the bounds returns 0, and no pixel operation reads or
\* writes a byte outside the surface's pitch x height buffer.
C2_OutOfBoundsNoOp ==
    [][ /\ (last'.op = "gpu_put_pixel" /\ ~InBounds(g_backbuffer, last'.x, last'.y))
            => (back_mem' = back_mem /\ front_mem' = front_mem /\ last'.wr = {})
        /\ (last'.op = "gfx_put_pixel" /\ ~InBounds(g_ctx, last'.x, last'.y))
            => (back_mem' = back_mem /\ front_mem' = front_mem /\ last'.wr = {})
        /\ (last'.op = "gpu_get_pixel" /\ ~InBounds(g_backbuffer, last'.x, last'.y))
            => (last'.ret = Zero32 /\ last'.rd = {})
        /\ (last'.op = "gfx_get_pixel" /\ ~InBounds(g_ctx, last'.x, last'.y))
            => (last'.ret = Zero32 /\ last'.rd = {})
        /\ last'.op \in BackOps => (last'.rd \cup last'.wr) \subseteq BackBytes
        /\ last'.op \in FrontOps => (last'.rd \cup last'.wr) \subseteq FrontBytes
      ]_vars

\* a put at x = width on the last row, after an earlier write made the buffer non-zero
C2_Witness ==
    /\ last.op = "gpu_put_pixel" /\ last.x = g_backbuffer.width
    /\ last.y = g_backbuffer.height - 1
    /\ \E o \in DOMAIN back_mem : back_mem[o] # 0

\* the handoff record of the 800x600x32 scenario
Handoff800x600x32 ==
    [fb_addr |-> 1073741824, fb_pitch |-> 3200, fb_width |-> 800, fb_height |-> 600,
     fb_bpp |-> 32, fb_type |-> 1]

\* front-buffer offsets gpu_present is to fill: the first width x bytes-per-pixel
\* bytes of every row
PresentedOffsets ==
    {y * g_gpu.pitch + i : y \in 0..(g_backbuffer.height - 1),
                           i \in 0..(g_backbuffer.width * (g_backbuffer.bpp \div 8) - 1)}

\* C7: after present(), front[y * front_pitch + i] = back[y * back_pitch + i] for
\* every row y and every i < width x bytes-per-pixel; exactly that many bytes are
\* copied per row (3200 for the 800x600x32 record, whose back buffer is 800x600x4
\* bytes); front bytes beyond the row width and the back buffer are unchanged.
C7_PresentCopiesRows ==
    [][ last'.op = "gpu_present" =>
          /\ \A y \in 0..(g_backbuffer.height - 1) :
               \A i \in 0..(g_backbuffer.width * (g_backbuffer.bpp \div 8) - 1) :
                  front_mem'[y * g_gpu.pitch + i] = back_mem[y * g_backbuffer.pitch + i]
          /\ last'.wr = PresentedOffsets
          /\ \A o \in DOMAIN front_mem : o \notin PresentedOffsets => front_mem'[o] = front_mem[o]
          /\ back_mem' = back_mem
          /\ gpu_present_row_bytes(g_backbuffer, g_gpu)
                = g_backbuffer.width * (g_backbuffer.bpp \div 8)
          /\ gpu_present_row_bytes(gpu_init_backbuffer(Handoff800x600x32),
                                   gpu_init_device(Handoff800x600x32)) = 3200
          /\ gpu_init_clear_bytes(gpu_init_backbuffer(Handoff800x600x32)) = 800 * 600 * 4
      ]_vars

\* a present with a front pitch larger than the row width, of a back buffer that
\* was drawn into: the row bytes arrived and the padding kept its old content
C7_Witness ==
    /\ last.op = "gpu_present"
    /\ g_gpu.pitch > g_backbuffer.pitch
    /\ \E o \in DOMAIN back_mem : back_mem[o] # 0
    /\ \E o \in DOMAIN front_mem : front_mem[o] = 255
    /\ front_mem[g_backbuffer.pitch] = 170

\* byte offsets of pixel (x, y) in a surface, none when (x, y) is outside
PixelBytes(fb, x, y) ==
    IF InBounds(fb, x, y)
    THEN {y * fb.pitch + x * (fb.bpp \div 8) + k : k \in 0..((fb.bpp \div 8) - 1)}
    ELSE {}

\* the pixel a surface holds at (x, y), decoded from the bytes of mem
DecodePixel(fb, mem, x, y) ==
    LET p == y * fb.pitch + x * (fb.bpp \div 8)
        new == [k \in 1..4 |-> Load8(mem, p + (k - 1))]
    IN  IF fb.bpp = 32 THEN new
        ELSE IF fb.bpp = 24 THEN <<new[1], new[2], new[3], 0>>
        ELSE LET v == new[1] + 256 * new[2]
             IN  <<(v % 32) * 8, ((v \div 32) % 64) * 4, ((v \div 2048) % 32) * 8, 0>>

\* C9: a filled circle of radius 0 at (cx, cy) plots (cx, cy) and nothing else:
\* every put-pixel call targets (cx, cy), no byte outside that pixel changes, and
\* the pixel (when on the surface) holds the colour; for gfx_fill_circle and
\* gpu_fill_circle.
C9_FillCircleRadiusZero ==
    [][ /\ (last'.op = "gpu_fill_circle" /\ last'.r = 0) =>
              /\ last'.plotted # <<>>
              /\ \A i \in 1..Len(last'.plotted) : last'.plotted[i] = <<last'.x, last'.y>>
              /\ \A o \in DOMAIN back_mem :
                    o \notin PixelBytes(g_backbuffer, last'.x, last'.y)
                        => back_mem'[o] = back_mem[o]
              /\ front_mem' = front_mem
              /\ InBounds(g_backbuffer, last'.x, last'.y) =>
                    DecodePixel(g_backbuffer, back_mem', last'.x, last'.y)
                        = ExpectedReadback(g_backbuffer.bpp, last'.color)
        /\ (last'.op = "gfx_fill_circle" /\ last'.r = 0) =>
              /\ last'.plotted # <<>>
              /\ \A i \in 1..Len(last'.plotted) : last'.plotted[i] = <<last'.x, last'.y>>
              /\ \A o \in DOMAIN front_mem :
                    o \notin PixelBytes(g_ctx, last'.x, last'.y)
                        => front_mem'[o] = front_mem[o]
              /\ back_mem' = back_mem
              /\ InBounds(g_ctx, last'.x, last'.y) =>
                    DecodePixel(g_ctx, front_mem', last'.x, last'.y)
                        = ExpectedReadback(g_ctx.bpp, last'.color)
      ]_vars

\* a radius-0 circle on the surface, drawn over an untouched (0xAA) framebuffer
C9_Witness ==
    /\ last.op = "gfx_fill_circle" /\ last.r = 0 /\ InBounds(g_ctx, last.x, last.y)
    /\ gfx_get_pixel(last.x, last.y).ret = ExpectedReadback(g_ctx.bpp, last.color)
    /\ Cardinality({o \in DOMAIN front_mem : front_mem[o] # 170}) = g_ctx.bpp \div 8

\* the straight-alpha blend of one channel
BlendChannel(fg, bg, a) == (fg * a + bg * (255 - a)) \div 255

\* the colour (alpha byte 0) whose channels are the blend of colour c over bg
BlendOver(c, bg) ==
    <<BlendChannel(c[1], bg[1], c[4]), BlendChannel(c[2], bg[2], c[4]),
      BlendChannel(c[3], bg[3], c[4]), 0>>

ExactStored(bpp, v) == IF bpp = 32 THEN v ELSE <<v[1], v[2], v[3], 0>>

\* the pixel the destination holds after the blended colour v was written to it:
\* v itself (exact), or v with the precision of the surface's format
StoredAs(exact, bpp, v) == IF exact THEN ExactStored(bpp, v) ELSE ExpectedReadback(bpp, v)

\* the steps of gpu_put_pixel_alpha, for either reading of "stored"
C10_Body(exact) ==
    last'.op = "gpu_put_pixel_alpha" =>
        LET a   == GET_A(last'.color)
            x   == last'.x
            y   == last'.y
            bg  == gpu_get_pixel(x, y).ret
            now == DecodePixel(g_backbuffer, back_mem', x, y)
        IN  /\ a = 0 => (last'.rd = {} /\ last'.wr = {} /\ back_mem' = back_mem)
            /\ a = 255 =>
                  /\ last'.rd = {} /\ last'.bg = <<>>
                  /\ InBounds(g_backbuffer, x, y)
                        => now = ExpectedReadback(g_backbuffer.bpp, last'.color)
            /\ (a > 0 /\ a < 255 /\ InBounds(g_backbuffer, x, y)) =>
                  /\ last'.bg = bg
                  /\ last'.rd = PixelBytes(g_backbuffer, x, y)
                  /\ now = StoredAs(exact, g_backbuffer.bpp, BlendOver(last'.color, bg))
                  /\ (last'.color = <<0, 0, 255, 128>> /\ bg[1] = 0 /\ bg[2] = 0 /\ bg[3] = 0)
                        => (now[3] = 128 /\ now[2] = 0 /\ now[1] = 0)
            /\ front_mem' = front_mem

\* C10 as claimed: with source alpha 0 the destination is neither read nor written,
\* with 255 it is overwritten with c without a read, and otherwise each destination
\* channel becomes exactly (fg*a + bg*(255-a))/255 of the value read, on every format.
C10_Original == [][C10_Body(TRUE)]_vars

\* C10 (amended): as above, except that the blended colour is stored with the
\* format's precision: exactly (fg*a + bg*(255-a))/255 per channel for 32 and 24 bpp,
\* its 5-6-5 truncation for 16 bpp; red with alpha 128 over black gives (128, 0, 0).
C10_PutPixelAlpha == [][C10_Body(FALSE)]_vars

\* a half-transparent write over a pixel that an earlier write made non-black
C10_Witness ==
    /\ last.op = "gpu_put_pixel_alpha" /\ InBounds(g_backbuffer, last.x, last.y)
    /\ GET_A(last.color) = 100
    /\ last.bg # <<>> /\ last.bg # Zero32
    /\ gpu_get_pixel(last.x, last.y).ret
          = ExpectedReadback(g_backbuffer.bpp, BlendOver(last.color, last.bg))


\* pixels of the rectangle <<x, y, width, height>>
RectPixels(q) == (q[1]..(q[1] + q[3] - 1)) \X (q[2]..(q[2] + q[4] - 1))

\* pixels of the active viewport
ViewportPixels ==
    RectPixels(<<g_viewport.x, g_viewport.y, g_viewport.width, g_viewport.height>>)

\* byte offsets of the pixels ps in a surface of the given pitch and depth
BytesOfPixels(ps, pitch, bpp) ==
    {p[2] * pitch + p[1] * (bpp \div 8) + i : p \in ps, i \in 0..((bpp \div 8) - 1)}

-----------------------------------------------------------------------------
(* The two blend functions as pure functions of their arguments *)

\* the bytes colour arguments are built from
BlendBytes == {0, 77, 255}

BlendColors == {<<b, g, r, a>> : b \in BlendBytes, g \in BlendBytes, r \in BlendBytes, a \in BlendBytes}

BlendAlphas == {0, 1, 128, 255}

InitBlend ==
    /\ IdleSurface /\ IdleDisplay /\ IdlePci
    /\ blend_in \in [fg : BlendColors, bg : BlendColors, alpha : BlendAlphas]
    /\ blend_out = [gpu |-> <<>>, gfx |-> <<>>]

\* a call of gpu_blend on the arguments
GpuBlend ==
    /\ blend_out.gpu = <<>>
    /\ blend_out' = [blend_out EXCEPT !.gpu = gpu_blend(blend_in.fg, blend_in.bg, blend_in.alpha)]
    /\ UNCHANGED <<blend_in, surfVars, dispVars, pciVars>>

\* a call of color_blend on the arguments
ColorBlend ==
    /\ blend_out.gfx = <<>>
    /\ blend_out' = [blend_out EXCEPT !.gfx = color_blend(blend_in.fg, blend_in.bg, blend_in.alpha)]
    /\ UNCHANGED <<blend_in, surfVars, dispVars, pciVars>>

NextBlend == GpuBlend \/ ColorBlend

SpecBlend == InitBlend /\ [][NextBlend]_vars

\* the results computed so far
BlendResults == {blend_out.gpu, blend_out.gfx} \ {<<>>}

\* colour c with its alpha byte cleared
Low24(c) == <<c[1], c[2], c[3], 0>>

\* C3 as claimed: blend(fg, bg, 0) = bg and blend(fg, bg, 255) = fg as full 32-bit
\* values, for gpu_blend and color_blend.
C3_Original ==
    \A res \in BlendResults :
        /\ blend_in.alpha = 0 => res = blend_in.bg
        /\ blend_in.alpha = 255 => res = blend_in.fg

\* C3 (amended): blend(fg, bg, 0) is bg and blend(fg, bg, 255) is fg in the three
\* colour channels, with the alpha byte of the result cleared; so the result equals
\* bg (resp. fg) as a 32-bit value exactly when that colour's alpha byte is 0.
\* gpu_blend and color_blend agree.
C3_BlendExtremes ==
    /\ \A res \in BlendResults :
          /\ blend_in.alpha = 0 => res = Low24(blend_in.bg)
          /\ blend_in.alpha = 255 => res = Low24(blend_in.fg)
          /\ blend_in.alpha = 0 => (res = blend_in.bg <=> GET_A(blend_in.bg) = 0)
          /\ blend_in.alpha = 255 => (res = blend_in.fg <=> GET_A(blend_in.fg) = 0)
    /\ Cardinality(BlendResults) <= 1

\* both functions called with alpha 0 on a background with a non-zero alpha byte
\* and colour channels that differ from the foreground's
C3_Witness ==
    /\ blend_in.alpha = 0
    /\ blend_out.gpu # <<>> /\ blend_out.gfx # <<>>
    /\ GET_A(blend_in.bg) = 255
    /\ Low24(blend_in.bg) # Low24(blend_in.fg)
    /\ blend_out.gpu = Low24(blend_in.bg)


-----------------------------------------------------------------------------
(* PCI configuration space of bus 0 (the hardware the enumerator reads) *)

PCI_VENDOR_ID == 0
PCI_DEVICE_ID == 2
PCI_COMMAND == 4
PCI_REVISION_ID == 8
PCI_PROG_IF == 9
PCI_SUBCLASS == 10
PCI_CLASS == 11
PCI_HEADER_TYPE == 14
PCI_BAR0 == 16
PCI_INTERRUPT_LINE == 60
PCI_INTERRUPT_PIN == 61
PCI_CMD_IO_SPACE == 1
PCI_CMD_MEM_SPACE == 2
PCI_CMD_BUS_MASTER == 4
PCI_CLASS_DISPLAY == 3
PCI_SUBCLASS_VGA == 0
PCI_SUBCLASS_3D == 2
PCI_VENDOR_AMD == 4098
PCI_VENDOR_NVIDIA == 4318
PCI_VENDOR_INTEL == 32902
PCI_VENDOR_VMWARE == 5549
PCI_VENDOR_QEMU == 4660
PCI_VENDOR_VIRTIO == 6900
PCI_VENDOR_BOCHS == 4660
PCI_MAX_DEVICES == 32
PCI_BAR_IO == 1
PCI_BAR_MEM_TYPE == 6
PCI_BAR_MEM_64 == 4

\* slots of a bus and functions of a slot
PciSlots == 0..31
PciFuncs == 0..7

\* the registers of one function that the program reads
CfgRegs(vendor, device, class, subclass, header, command, bars) ==
    [vendor_id |-> vendor, device_id |-> device, class_code |-> class, subclass |-> subclass,
     prog_if |-> 0, revision |-> 2, header_type |-> header, command |-> command,
     interrupt_line |-> 11, interrupt_pin |-> 1, bar |-> bars]

\* no function answers: every read returns all ones (0xFFFFFFFF is written -1)
CfgAbsent ==
    [vendor_id |-> 65535, device_id |-> 65535, class_code |-> 255, subclass |-> 255,
     prog_if |-> 255, revision |-> 255, header_type |-> 255, command |-> 65535,
     interrupt_line |-> 255, interrupt_pin |-> 255, bar |-> <<-1, -1, -1, -1, -1, -1>>]

NoBars == <<0, 0, 0, 0, 0, 0>>

\* the functions of a slot holding a device of the given kind
SlotConfig(kind, func) ==
    CASE kind = "absent" -> CfgAbsent
      [] kind = "multi8" ->
            \* eight functions, all present
            IF func = 0
            THEN CfgRegs(PCI_VENDOR_VIRTIO, 4096, 2, 0, 128, 0, <<49409, 0, 0, 0, 0, 0>>)
            ELSE CfgRegs(PCI_VENDOR_VIRTIO, 4096 + func, 2, 0, 0, 0,
                         <<49409 + 32 * func, 0, 0, 0, 0, 0>>)
      [] kind = "vga" /\ func = 0 ->
            \* Bochs/QEMU VGA: prefetchable 32-bit framebuffer BAR0, 32-bit MMIO BAR2
            CfgRegs(PCI_VENDOR_QEMU, 4369, PCI_CLASS_DISPLAY, PCI_SUBCLASS_VGA, 0, 3,
                    <<1073741832, 0, 1342177280, 0, 0, 0>>)
      [] kind = "gpu3d" /\ func = 0 ->
            \* 3D controller: 64-bit BAR0 (BAR1 holds its upper half), 64-bit BAR2, I/O BAR4
            CfgRegs(PCI_VENDOR_NVIDIA, 7812, PCI_CLASS_DISPLAY, PCI_SUBCLASS_3D, 0, 0,
                    <<1610612748, 1, 1879048196, 0, 49153, 0>>)
      [] kind = "svga" /\ func = 0 ->
            \* VMware SVGA II: I/O BAR0, framebuffer BAR1, FIFO BAR2
            CfgRegs(PCI_VENDOR_VMWARE, 1029, PCI_CLASS_DISPLAY, PCI_SUBCLASS_VGA, 0, 3,
                    <<49665, 1207959560, 1275068416, 0, 0, 0>>)
      [] kind = "igpu" /\ func = 0 ->
            \* Intel integrated graphics: 64-bit MMIO BAR0, 64-bit aperture BAR2
            CfgRegs(PCI_VENDOR_INTEL, 5650, PCI_CLASS_DISPLAY, PCI_SUBCLASS_VGA, 0, 6,
                    <<1577058308, 0, 1073741836, 0, 49729, 0>>)
      [] kind = "radeon" /\ func = 0 ->
            CfgRegs(PCI_VENDOR_AMD, 26591, PCI_CLASS_DISPLAY, PCI_SUBCLASS_VGA, 0, 7,
                    <<1342177288, 0, 1610612736, 0, 49921, 0>>)
      [] kind = "virtio_vga" /\ func = 0 ->
            \* virtio-vga: display class, VirtIO vendor
            CfgRegs(PCI_VENDOR_VIRTIO, 4176, PCI_CLASS_DISPLAY, PCI_SUBCLASS_VGA, 0, 3,
                    <<1342177288, 0, 1409286144, 0, 0, 0>>)
      [] kind = "nic" /\ func = 0 ->
            CfgRegs(PCI_VENDOR_INTEL, 4110, 2, 0, 0, 259, <<1342439424, 49217, 0, 0, 0, 0>>)
      [] kind = "bridge" /\ func = 0 ->
            \* PCI-to-PCI bridge: header type 1, its BAR registers are not read
            CfgRegs(PCI_VENDOR_INTEL, 9288, 6, 4, 1, 7, <<1345323008, 49281, 0, 0, 0, 0>>)
      [] kind = "zero" /\ func = 0 ->
            \* a function whose vendor word reads 0x0000
            CfgRegs(0, 0, 0, 0, 0, 0, NoBars)
      [] kind = "zeromulti" /\ func = 0 ->
            \* function 0 reads vendor 0x0000 with the multi-function bit set
            CfgRegs(0, 0, 6, 0, 128, 0, NoBars)
      [] kind = "zeromulti" /\ func = 2 ->
            \* an answering function behind it
            CfgRegs(PCI_VENDOR_INTEL, 28704, 12, 3, 0, 6, NoBars)
      [] kind = "multi" /\ func = 0 ->
            \* multi-function chipset: functions 0, 1, 3 and 5 answer
            CfgRegs(PCI_VENDOR_INTEL, 28672, 6, 1, 128, 7, NoBars)
      [] kind = "multi" /\ func = 1 ->
            CfgRegs(PCI_VENDOR_INTEL, 28688, 1, 1, 0, 5, <<0, 0, 0, 0, 49249, 0>>)
      [] kind = "multi" /\ func = 3 ->
            CfgRegs(PCI_VENDOR_INTEL, 28947, 6, 128, 0, 0, NoBars)
      [] kind = "multi" /\ func = 5 ->
            CfgRegs(0, 1, 255, 0, 0, 0, NoBars)
      [] OTHER -> CfgAbsent

\* the registers of function (slot, func): the device's, with the command register as
\* last written
pci_cfg(hw, slot, func) ==
    LET c == SlotConfig(hw.slots[slot], func) IN
    IF <<slot, func>> \in DOMAIN hw.cmd THEN [c EXCEPT !.command = hw.cmd[<<slot, func>>]] ELSE c

pci_read16(hw, bus, slot, func, offset) ==
    LET c == pci_cfg(hw, slot, func) IN
    CASE offset = PCI_VENDOR_ID -> c.vendor_id
      [] offset = PCI_DEVICE_ID -> c.device_id
      [] offset = PCI_COMMAND -> c.command

pci_read8(hw, bus, slot, func, offset) ==
    LET c == pci_cfg(hw, slot, func) IN
    CASE offset = PCI_CLASS -> c.class_code
      [] offset = PCI_SUBCLASS -> c.subclass
      [] offset = PCI_PROG_IF -> c.prog_if
      [] offset = PCI_REVISION_ID -> c.revision
      [] offset = PCI_HEADER_TYPE -> c.header_type
      [] offset = PCI_INTERRUPT_LINE -> c.interrupt_line
      [] offset = PCI_INTERRUPT_PIN -> c.interrupt_pin

\* the BAR register at offset PCI_BAR0 + 4*i
pci_read32(hw, bus, slot, func, offset) ==
    pci_cfg(hw, slot, func).bar[((offset - PCI_BAR0) \div 4) + 1]

\* the dword holding the register is read, its half at offset & 2 replaced by val and
\* the dword written back: the command register of (slot, func) takes the value val,
\* the status register beside it receives the value just read
pci_write16(hw, bus, slot, func, offset, val) ==
    IF offset = PCI_COMMAND
    THEN [hw EXCEPT !.cmd = [k \in (DOMAIN hw.cmd) \cup {<<slot, func>>} |->
                                IF k = <<slot, func>> THEN U16(val) ELSE hw.cmd[k]]]
    ELSE hw

pci_get_bar_size(bus, slot, func, bar_num) == 0

pci_bar_get_addr(bar) ==
    IF BitAnd(bar, PCI_BAR_IO) # 0 THEN bar - (bar % 4) ELSE bar - (bar % 16)



-----------------------------------------------------------------------------
(* The bus enumerator.  A table state is [devs, count, writes]: the array *)
(* pci_devices (index -> record), pci_device_count, and the indices at    *)
(* which a record was stored since the enumeration began.                 *)

\* an entry of the zero-initialised static array
ZeroDevice ==
    [bus |-> 0, slot |-> 0, func |-> 0, vendor_id |-> 0, device_id |-> 0, class_code |-> 0,
     subclass |-> 0, prog_if |-> 0, revision |-> 0, header_type |-> 0, interrupt_line |-> 0,
     interrupt_pin |-> 0, bar |-> NoBars, bar_size |-> NoBars, bar_type |-> NoBars]

\* the for loop over the six BARs; a 64-bit memory BAR advances i twice
RECURSIVE pci_read_bars(_, _, _, _, _, _)
pci_read_bars(dev, hw, bus, slot, func, i) ==
    IF i >= 6 THEN dev
    ELSE LET b  == pci_read32(hw, bus, slot, func, PCI_BAR0 + i * 4)
             ty == IF b = 0 THEN 0
                   ELSE IF BitAnd(b, PCI_BAR_IO) # 0 THEN 1
                   ELSE IF BitAnd(b, PCI_BAR_MEM_TYPE) = PCI_BAR_MEM_64 THEN 3
                   ELSE 2
             d  == [dev EXCEPT !.bar[i + 1] = b,
                               !.bar_size[i + 1] = pci_get_bar_size(bus, slot, func, i),
                               !.bar_type[i + 1] = ty]
         IN  pci_read_bars(d, hw, bus, slot, func, IF ty = 3 THEN i + 2 ELSE i + 1)

\* the record pci_check_device leaves in the entry that held old
pci_fill_device(old, hw, bus, slot, func) ==
    LET d == [old EXCEPT
                !.bus = bus, !.slot = slot, !.func = func,
                !.vendor_id = pci_read16(hw, bus, slot, func, PCI_VENDOR_ID),
                !.device_id = pci_read16(hw, bus, slot, func, PCI_DEVICE_ID),
                !.class_code = pci_read8(hw, bus, slot, func, PCI_CLASS),
                !.subclass = pci_read8(hw, bus, slot, func, PCI_SUBCLASS),
                !.prog_if = pci_read8(hw, bus, slot, func, PCI_PROG_IF),
                !.revision = pci_read8(hw, bus, slot, func, PCI_REVISION_ID),
                !.header_type = pci_read8(hw, bus, slot, func, PCI_HEADER_TYPE),
                !.interrupt_line = pci_read8(hw, bus, slot, func, PCI_INTERRUPT_LINE),
                !.interrupt_pin = pci_read8(hw, bus, slot, func, PCI_INTERRUPT_PIN)]
    IN  IF BitAnd(d.header_type, 127) = 0 THEN pci_read_bars(d, hw, bus, slot, func, 0) ELSE d

\* the store of a record at index t.count; an index outside the array is
\* recorded in writes and leaves the array as it is
pci_store_device(t, hw, bus, slot, func) ==
    LET idx == t.count IN
    [devs   |-> IF idx \in DOMAIN t.devs
                THEN [t.devs EXCEPT ![idx] = pci_fill_device(t.devs[idx], hw, bus, slot, func)]
                ELSE t.devs,
     count  |-> idx + 1,
     writes |-> t.writes \cup {idx}]

\* variant: the table-full test is left out
pci_check_device_no_cap(t, hw, bus, slot, func) ==
    IF pci_read16(hw, bus, slot, func, PCI_VENDOR_ID) = 65535 THEN t
    ELSE pci_store_device(t, hw, bus, slot, func)

pci_check_device(t, hw, bus, slot, func) ==
    IF pci_read16(hw, bus, slot, func, PCI_VENDOR_ID) = 65535 THEN t
    ELSE IF t.count >= PCI_MAX_DEVICES THEN t
    ELSE pci_store_device(t, hw, bus, slot, func)

\* variant: the function loop stops before function 7
RECURSIVE pci_enumerate_funcs_to_6(_, _, _, _)
pci_enumerate_funcs_to_6(t, hw, slot, func) ==
    IF func >= 7 THEN t
    ELSE CHOOSE r \in
            {pci_enumerate_funcs_to_6(t1, hw, slot, func + 1) :
                t1 \in {IF pci_read16(hw, 0, slot, func, PCI_VENDOR_ID) # 65535
                        THEN pci_check_device(t, hw, 0, slot, func) ELSE t}} : TRUE

\* the loop over functions 1..7 of a multi-function slot; the table after each
\* iteration is bound as a value (t1) before the next iteration uses it
RECURSIVE pci_enumerate_funcs(_, _, _, _)
pci_enumerate_funcs(t, hw, slot, func) ==
    IF func >= 8 THEN t
    ELSE CHOOSE r \in
            {pci_enumerate_funcs(t1, hw, slot, func + 1) :
                t1 \in {IF pci_read16(hw, 0, slot, func, PCI_VENDOR_ID) # 65535
                        THEN pci_check_device(t, hw, 0, slot, func) ELSE t}} : TRUE

\* variant: only an all-ones vendor word makes the scan skip a slot
RECURSIVE pci_enumerate_slots_ones_only(_, _, _)
pci_enumerate_slots_ones_only(t, hw, slot) ==
    IF slot >= 32 THEN t
    ELSE LET vendor == pci_read16(hw, 0, slot, 0, PCI_VENDOR_ID) IN
         IF vendor = 65535 THEN pci_enumerate_slots_ones_only(t, hw, slot + 1)
         ELSE LET header == pci_read8(hw, 0, slot, 0, PCI_HEADER_TYPE) IN
              CHOOSE r \in
                {IF t2.count >= PCI_MAX_DEVICES THEN t2
                 ELSE pci_enumerate_slots_ones_only(t2, hw, slot + 1) :
                    t2 \in {IF BitAnd(header, 128) # 0
                            THEN CHOOSE f \in {pci_enumerate_funcs(t1, hw, slot, 1) :
                                        t1 \in {pci_check_device(t, hw, 0, slot, 0)}} : TRUE
                            ELSE pci_check_device(t, hw, 0, slot, 0)}} : TRUE

\* the loop over the slots of bus 0; t2 is the table after the slot's functions
RECURSIVE pci_enumerate_slots(_, _, _)
pci_enumerate_slots(t, hw, slot) ==
    IF slot >= 32 THEN t
    ELSE LET vendor == pci_read16(hw, 0, slot, 0, PCI_VENDOR_ID) IN
         IF vendor = 65535 \/ vendor = 0 THEN pci_enumerate_slots(t, hw, slot + 1)
         ELSE LET header == pci_read8(hw, 0, slot, 0, PCI_HEADER_TYPE) IN
              CHOOSE r \in
                {IF t2.count >= PCI_MAX_DEVICES THEN t2
                 ELSE pci_enumerate_slots(t2, hw, slot + 1) :
                    t2 \in {IF BitAnd(header, 128) # 0
                            THEN CHOOSE f \in {pci_enumerate_funcs(t1, hw, slot, 1) :
                                        t1 \in {pci_check_device(t, hw, 0, slot, 0)}} : TRUE
                            ELSE pci_check_device(t, hw, 0, slot, 0)}} : TRUE

\* variant: the device count is not reset before the scan
pci_enumerate_no_reset(t, hw) ==
    CHOOSE r \in {pci_enumerate_slots(t0, hw, 0) : t0 \in {[t EXCEPT !.writes = {}]}} : TRUE

pci_enumerate(t, hw) ==
    CHOOSE r \in {pci_enumerate_slots(t0, hw, 0) :
                    t0 \in {[t EXCEPT !.count = 0, !.writes = {}]}} : TRUE

\* a null PCIDevice pointer; a non-null one is the index of the entry it points to
NullDev == -1

\* variant: the whole array is searched instead of the registered entries
pci_find_device_whole_array(t, vendor, device) ==
    LET hits == {i \in DOMAIN t.devs :
                    t.devs[i].vendor_id = vendor /\ t.devs[i].device_id = device}
    IN  IF hits = {} THEN NullDev ELSE CHOOSE i \in hits : \A j \in hits : i <= j

\* the loop of pci_find_device from index i on (the array has PCI_MAX_DEVICES entries)
RECURSIVE pci_find_device_from(_, _, _, _)
pci_find_device_from(t, vendor, device, i) ==
    IF i >= t.count \/ i \notin DOMAIN t.devs THEN NullDev
    ELSE IF t.devs[i].vendor_id = vendor /\ t.devs[i].device_id = device THEN i
    ELSE pci_find_device_from(t, vendor, device, i + 1)

pci_find_device(t, vendor, device) == pci_find_device_from(t, vendor, device, 0)

\* the loop of pci_find_class from index i on
RECURSIVE pci_find_class_from(_, _, _, _)
pci_find_class_from(t, class_code, subclass, i) ==
    IF i >= t.count \/ i \notin DOMAIN t.devs THEN NullDev
    ELSE IF t.devs[i].class_code = class_code /\ t.devs[i].subclass = subclass THEN i
    ELSE pci_find_class_from(t, class_code, subclass, i + 1)

pci_find_class(t, class_code, subclass) == pci_find_class_from(t, class_code, subclass, 0)

\* variant: the first display device of either subclass, in table order
pci_find_display_table_order(t) ==
    LET vga == pci_find_class(t, PCI_CLASS_DISPLAY, PCI_SUBCLASS_VGA)
        d3  == pci_find_class(t, PCI_CLASS_DISPLAY, PCI_SUBCLASS_3D)
    IN  IF vga = NullDev THEN d3 ELSE IF d3 = NullDev THEN vga ELSE IF d3 < vga THEN d3 ELSE vga

pci_find_display(t) ==
    LET dev == pci_find_class(t, PCI_CLASS_DISPLAY, PCI_SUBCLASS_VGA) IN
    IF dev # NullDev THEN dev ELSE pci_find_class(t, PCI_CLASS_DISPLAY, PCI_SUBCLASS_3D)

\* variant: the three enable bits are written instead of OR-ed in
pci_enable_device_bits_only(hw, dev) ==
    pci_write16(hw, dev.bus, dev.slot, dev.func, PCI_COMMAND,
                BitOr(BitOr(PCI_CMD_IO_SPACE, PCI_CMD_MEM_SPACE), PCI_CMD_BUS_MASTER))

pci_enable_device(hw, dev) ==
    LET cmd == pci_read16(hw, dev.bus, dev.slot, dev.func, PCI_COMMAND) IN
    pci_write16(hw, dev.bus, dev.slot, dev.func, PCI_COMMAND,
                BitOr(BitOr(BitOr(cmd, PCI_CMD_IO_SPACE), PCI_CMD_MEM_SPACE), PCI_CMD_BUS_MASTER))



-----------------------------------------------------------------------------
(* gpu_hw.h: the Bochs VBE Dispi ports and the adapter resolution *)

GPU_HW_NONE == 0
GPU_HW_VBE == 1
GPU_HW_BOCHS == 2
GPU_HW_VMWARE_SVGA == 3
GPU_HW_VIRTIO_GPU == 4
GPU_HW_INTEL == 5
GPU_HW_AMD == 6
GPU_HW_NVIDIA == 7
VBE_DISPI_INDEX_ID == 0
VBE_DISPI_INDEX_VIDEO_MEM == 10
VBE_DISPI_ID0 == 45248
VBE_DISPI_ID5 == 45253

\* outw(VBE_DISPI_IOPORT_INDEX, index); inw(VBE_DISPI_IOPORT_DATA): the device
\* after the access and the value read
bochs_read(regs, index) ==
    [regs |-> [regs EXCEPT !.index = index], val |-> regs.reg[index]]

\* variant: only the lower end of the identity range is tested
bochs_detect_no_upper(regs) ==
    LET rd == bochs_read(regs, VBE_DISPI_INDEX_ID) IN
    [regs |-> rd.regs, ret |-> rd.val >= VBE_DISPI_ID0]

bochs_detect(regs) ==
    LET rd == bochs_read(regs, VBE_DISPI_INDEX_ID) IN
    [regs |-> rd.regs, ret |-> (rd.val >= VBE_DISPI_ID0 /\ rd.val <= VBE_DISPI_ID5)]

bochs_get_vram_size(regs) ==
    LET rd == bochs_read(regs, VBE_DISPI_INDEX_VIDEO_MEM) IN
    [regs |-> rd.regs, ret |-> IF rd.val = 0 THEN 16 * 1024 * 1024 ELSE rd.val * 64 * 1024]

\* the zero-initialised static g_gpu_hw
ZeroGpuHw ==
    [type |-> GPU_HW_NONE, pci_dev |-> NullDev, fb_addr |-> 0, fb_size |-> 0, width |-> 0,
     height |-> 0, bpp |-> 0, pitch |-> 0, mmio_addr |-> 0, mmio_size |-> 0, io_base |-> 0,
     has_accel |-> 0, has_cursor |-> 0, vram_size |-> 0]

\* gpu_hw_init, the branch taken when pci_find_display returned entry gpu of table t
gpu_hw_init_pci(g0, t, hw, regs, gpu) ==
    LET dev  == t.devs[gpu]
        hw1  == pci_enable_device(hw, dev)
        g1   == [g0 EXCEPT !.pci_dev = gpu]
        g2   == IF dev.bar_type[1] = 2 \/ dev.bar_type[1] = 3
                THEN [g1 EXCEPT !.fb_addr = pci_bar_get_addr(dev.bar[1]),
                                !.fb_size = dev.bar_size[1]]
                ELSE g1
        g3   == IF dev.bar_type[3] = 2
                THEN [g2 EXCEPT !.mmio_addr = pci_bar_get_addr(dev.bar[3]),
                                !.mmio_size = dev.bar_size[3]]
                ELSE g2
        isq  == dev.vendor_id = PCI_VENDOR_QEMU \/ dev.vendor_id = PCI_VENDOR_BOCHS
        det  == bochs_detect(regs)
        vram == bochs_get_vram_size(det.regs)
    IN  IF isq /\ det.ret
        THEN [t |-> t, hw |-> hw1, regs |-> vram.regs, ret |-> 0,
              g |-> [g3 EXCEPT !.type = GPU_HW_BOCHS, !.vram_size = vram.ret,
                               !.has_accel = 0, !.has_cursor = 1]]
        ELSE [t |-> t, hw |-> hw1, regs |-> IF isq THEN det.regs ELSE regs, ret |-> 0,
              g |-> IF isq THEN g3
                    ELSE IF dev.vendor_id = PCI_VENDOR_VMWARE
                         THEN [g3 EXCEPT !.type = GPU_HW_VMWARE_SVGA]
                    ELSE IF dev.vendor_id = PCI_VENDOR_INTEL
                         THEN [g3 EXCEPT !.type = GPU_HW_INTEL]
                    ELSE IF dev.vendor_id = PCI_VENDOR_AMD
                         THEN [g3 EXCEPT !.type = GPU_HW_AMD]
                    ELSE IF dev.vendor_id = PCI_VENDOR_NVIDIA
                         THEN [g3 EXCEPT !.type = GPU_HW_NVIDIA]
                    ELSE g3]

\* gpu_hw_init on adapter state g, table t, bus hw and Dispi device regs:
\* the four after the call and the value returned
gpu_hw_init(g, t, hw, regs) ==
    LET g0  == [g EXCEPT !.type = GPU_HW_NONE, !.pci_dev = NullDev, !.fb_addr = 0,
                         !.mmio_addr = 0, !.has_accel = 0, !.has_cursor = 0]
        det == bochs_detect(regs)
        vram == bochs_get_vram_size(det.regs)
    IN  CHOOSE r \in
          {LET gpu == pci_find_display(t1) IN
           IF gpu # NullDev THEN gpu_hw_init_pci(g0, t1, hw, regs, gpu)
           ELSE IF det.ret
           THEN [t |-> t1, hw |-> hw, regs |-> vram.regs, ret |-> 0,
                 g |-> [g0 EXCEPT !.type = GPU_HW_BOCHS, !.vram_size = vram.ret]]
           ELSE [t |-> t1, hw |-> hw, regs |-> det.regs, ret |-> -1,
                 g |-> [g0 EXCEPT !.type = GPU_HW_VBE]] :
             t1 \in {pci_enumerate(t, hw)}} : TRUE

-----------------------------------------------------------------------------
(* gpu_hw.h: mode setting through the Dispi index/data port pair.  An      *)
(* operation returns the device after it and io, its outw calls in program *)
(* order, each <<port, value>>.                                            *)

VBE_DISPI_IOPORT_INDEX == 462
VBE_DISPI_IOPORT_DATA == 463
VBE_DISPI_INDEX_XRES == 1
VBE_DISPI_INDEX_YRES == 2
VBE_DISPI_INDEX_BPP == 3
VBE_DISPI_INDEX_ENABLE == 4
VBE_DISPI_INDEX_VIRT_WIDTH == 6
VBE_DISPI_INDEX_VIRT_HEIGHT == 7
VBE_DISPI_INDEX_X_OFFSET == 8
VBE_DISPI_INDEX_Y_OFFSET == 9
VBE_DISPI_DISABLED == 0
VBE_DISPI_ENABLED == 1
VBE_DISPI_LFB_ENABLED == 64

\* outw(VBE_DISPI_IOPORT_INDEX, index); outw(VBE_DISPI_IOPORT_DATA, value): the
\* device latches the index and stores the 16-bit value in that register
bochs_write(regs, index, value) ==
    [regs |-> [index |-> index, reg |-> [regs.reg EXCEPT ![index] = U16(value)]],
     io   |-> << <<VBE_DISPI_IOPORT_INDEX, index>>, <<VBE_DISPI_IOPORT_DATA, U16(value)>> >>]

\* a run of bochs_write calls, ws being their <<index, value>> arguments in order
RECURSIVE bochs_write_all(_, _)
bochs_write_all(regs, ws) ==
    IF ws = <<>> THEN [regs |-> regs, io |-> <<>>]
    ELSE LET w1   == bochs_write(regs, Head(ws)[1], Head(ws)[2])
             rest == bochs_write_all(w1.regs, Tail(ws))
         IN  [regs |-> rest.regs, io |-> w1.io \o rest.io]

\* variant: the display is re-enabled before the virtual resolution is written
bochs_set_mode_enable_early(regs, width, height, bpp) ==
    bochs_write_all(regs,
        << <<VBE_DISPI_INDEX_ENABLE, VBE_DISPI_DISABLED>>,
           <<VBE_DISPI_INDEX_XRES, width>>,
           <<VBE_DISPI_INDEX_YRES, height>>,
           <<VBE_DISPI_INDEX_BPP, bpp>>,
           <<VBE_DISPI_INDEX_ENABLE, BitOr(VBE_DISPI_ENABLED, VBE_DISPI_LFB_ENABLED)>>,
           <<VBE_DISPI_INDEX_VIRT_WIDTH, width>>,
           <<VBE_DISPI_INDEX_VIRT_HEIGHT, height * 2>>,
           <<VBE_DISPI_INDEX_X_OFFSET, 0>>,
           <<VBE_DISPI_INDEX_Y_OFFSET, 0>>,
           <<VBE_DISPI_INDEX_ENABLE, BitOr(VBE_DISPI_ENABLED, VBE_DISPI_LFB_ENABLED)>> >>)

\* bochs_set_mode (it always returns 0)
bochs_set_mode(regs, width, height, bpp) ==
    bochs_write_all(regs,
        << <<VBE_DISPI_INDEX_ENABLE, VBE_DISPI_DISABLED>>,
           <<VBE_DISPI_INDEX_XRES, width>>,
           <<VBE_DISPI_INDEX_YRES, height>>,
           <<VBE_DISPI_INDEX_BPP, bpp>>,
           <<VBE_DISPI_INDEX_VIRT_WIDTH, width>>,
           <<VBE_DISPI_INDEX_VIRT_HEIGHT, height * 2>>,
           <<VBE_DISPI_INDEX_X_OFFSET, 0>>,
           <<VBE_DISPI_INDEX_Y_OFFSET, 0>>,
           <<VBE_DISPI_INDEX_ENABLE, BitOr(VBE_DISPI_ENABLED, VBE_DISPI_LFB_ENABLED)>> >>)

\* variant: the adapter kind is not consulted
gpu_hw_set_mode_any_type(g, regs, width, height, bpp) ==
    LET r == bochs_set_mode(regs, width, height, bpp) IN
    [g    |-> [g EXCEPT !.width = width, !.height = height, !.bpp = bpp,
                        !.pitch = U16(width * (bpp \div 8))],
     regs |-> r.regs, io |-> r.io, ret |-> 0]

\* gpu_hw_set_mode: the adapter state and the device after the call, the outw
\* calls made and the value returned
gpu_hw_set_mode(g, regs, width, height, bpp) ==
    IF g.type = GPU_HW_BOCHS
    THEN LET r == bochs_set_mode(regs, width, height, bpp) IN
         [g    |-> [g EXCEPT !.width = width, !.height = height, !.bpp = bpp,
                             !.pitch = U16(width * (bpp \div 8))],
          regs |-> r.regs, io |-> r.io, ret |-> 0]
    ELSE [g |-> g, regs |-> regs, io |-> <<>>, ret |-> -1]

-----------------------------------------------------------------------------
(* The bus and the adapter as a state machine *)

\* the devices slot 0 may hold
SlotKinds ==
    {"absent", "vga", "gpu3d", "nic", "bridge", "zero", "zeromulti", "multi", "multi8"}

\* the devices slot 1 may hold
SecondSlotKinds == {"absent", "gpu3d", "bridge", "multi8"}

\* the devices a slot may be re-populated with between two scans
ReplacementKinds == {"absent", "vga", "multi"}

\* the slots whose device varies; every other slot holds the filler device
VaryingSlots == {0, 1}

FillerKinds == {"absent", "multi8"}

\* values the Dispi identity register may answer: around both ends of ID0..ID5
BochsIds == {45247, 45248, 45253, 45254}

\* the Dispi registers of an adapter answering id (newer ones report their memory)
BochsRegs(id) ==
    [index |-> 0,
     reg   |-> [i \in 0..10 |-> IF i = VBE_DISPI_INDEX_ID THEN id
                                ELSE IF i = VBE_DISPI_INDEX_VIDEO_MEM /\ id = VBE_DISPI_ID5 THEN 256
                                ELSE 0]]

\* pci_log: the last operation, the number of calls so far, the table indices the
\* last scan stored to, the population it scanned, whether that was the population
\* of the scan before, the arguments of the last call, the number of mode sets so
\* far, the outw calls of the last mode set
PciLogNone ==
    [op |-> "none", n |-> 0, writes |-> {}, scanned |-> <<>>, repeat |-> FALSE, arg |-> <<>>,
     modes |-> 0, io |-> <<>>]

\* the table as the enumerator's operators take it
Table == [devs |-> pci_devices, count |-> pci_device_count, writes |-> {}]

InitPci ==
    /\ IdleSurface /\ IdleBlend /\ IdleDisplay
    /\ \E k0 \in SlotKinds, k1 \in SecondSlotKinds, fill \in FillerKinds :
          pci_hw = [slots |-> [s \in PciSlots |-> IF s = 0 THEN k0 ELSE IF s = 1 THEN k1 ELSE fill],
                    cmd   |-> <<>>]
    /\ pci_devices = [i \in 0..(PCI_MAX_DEVICES - 1) |-> ZeroDevice]
    /\ pci_device_count = 0
    /\ pci_log = PciLogNone
    /\ \E id \in BochsIds : bochs_regs = BochsRegs(id)
    /\ g_gpu_hw = ZeroGpuHw
    /\ hw_ret = "none"
    /\ pci_calls = <<>>

\* a call of pci_enumerate
PciEnumerate ==
    /\ pci_log.n < MaxSteps
    /\ \E t \in {pci_enumerate(Table, pci_hw)} :
       /\ pci_devices' = t.devs
       /\ pci_device_count' = t.count
       /\ pci_log' = [op |-> "pci_enumerate", n |-> pci_log.n + 1, writes |-> t.writes,
                      scanned |-> pci_hw.slots, repeat |-> (pci_log.scanned = pci_hw.slots),
                      arg |-> <<>>, modes |-> pci_log.modes, io |-> <<>>]
    /\ UNCHANGED <<pci_hw, bochs_regs, g_gpu_hw, hw_ret>>
    /\ UNCHANGED <<surfVars, blendVars, dispVars, pci_calls>>

\* a call of gpu_hw_init
GpuHwInit ==
    /\ pci_log.n < MaxSteps
    /\ \E r \in {gpu_hw_init(g_gpu_hw, Table, pci_hw, bochs_regs)} :
       /\ pci_devices' = r.t.devs
       /\ pci_device_count' = r.t.count
       /\ pci_hw' = r.hw
       /\ bochs_regs' = r.regs
       /\ g_gpu_hw' = r.g
       /\ hw_ret' = r.ret
       /\ pci_log' = [op |-> "gpu_hw_init", n |-> pci_log.n + 1, writes |-> r.t.writes,
                      scanned |-> pci_hw.slots, repeat |-> (pci_log.scanned = pci_hw.slots),
                      arg |-> <<>>, modes |-> pci_log.modes, io |-> <<>>]
    /\ UNCHANGED <<surfVars, blendVars, dispVars, pci_calls>>

\* the environment: the device in a varying slot is exchanged
PciReplaceDevice ==
    /\ pci_log.n < MaxSteps /\ pci_log.op # "replace"
    /\ \E s \in VaryingSlots, k \in ReplacementKinds :
          /\ pci_hw.slots[s] # k
          /\ pci_hw' = [slots |-> [pci_hw.slots EXCEPT ![s] = k],
                        cmd   |-> [q \in {q \in DOMAIN pci_hw.cmd : q[1] # s} |-> pci_hw.cmd[q]]]
    /\ pci_log' = [pci_log EXCEPT !.op = "replace", !.writes = {}, !.arg = <<>>, !.io = <<>>]
    /\ UNCHANGED <<pci_devices, pci_device_count, bochs_regs, g_gpu_hw, hw_ret>>
    /\ UNCHANGED <<surfVars, blendVars, dispVars, pci_calls>>

\* (vendor, device) pairs looked up: the VGA adapter, the 3D controller, functions
\* 0 and 1 of the eight-function device, the vendor-0 function, the all-zero pair
FindIds ==
    {<<PCI_VENDOR_QEMU, 4369>>, <<PCI_VENDOR_NVIDIA, 7812>>, <<PCI_VENDOR_VIRTIO, 4096>>,
     <<PCI_VENDOR_VIRTIO, 4097>>, <<0, 1>>, <<0, 0>>}

\* (class, subclass) pairs looked up: VGA, 3D, network, PCI bridge, all-zero
FindClasses ==
    {<<PCI_CLASS_DISPLAY, PCI_SUBCLASS_VGA>>, <<PCI_CLASS_DISPLAY, PCI_SUBCLASS_3D>>,
     <<2, 0>>, <<6, 4>>, <<0, 0>>}

\* table indices handed to pci_enable_device
EnableIndices == {0, 1, 3}

\* a call of pci_find_device
PciFindDevice ==
    /\ pci_log.n < MaxSteps
    /\ \E q \in FindIds :
          /\ hw_ret' = pci_find_device(Table, q[1], q[2])
          /\ pci_log' = [pci_log EXCEPT !.op = "pci_find_device", !.n = @ + 1,
                                        !.writes = {}, !.arg = q, !.io = <<>>]
    /\ UNCHANGED <<pci_hw, pci_devices, pci_device_count, bochs_regs, g_gpu_hw>>
    /\ UNCHANGED <<surfVars, blendVars, dispVars, pci_calls>>

\* a call of pci_find_class
PciFindClass ==
    /\ pci_log.n < MaxSteps
    /\ \E q \in FindClasses :
          /\ hw_ret' = pci_find_class(Table, q[1], q[2])
          /\ pci_log' = [pci_log EXCEPT !.op = "pci_find_class", !.n = @ + 1,
                                        !.writes = {}, !.arg = q, !.io = <<>>]
    /\ UNCHANGED <<pci_hw, pci_devices, pci_device_count, bochs_regs, g_gpu_hw>>
    /\ UNCHANGED <<surfVars, blendVars, dispVars, pci_calls>>

\* a call of pci_enable_device on a registered device
PciEnableDevice ==
    /\ pci_log.n < MaxSteps
    /\ \E i \in EnableIndices :
          /\ i < pci_device_count
          /\ pci_hw' = pci_enable_device(pci_hw, pci_devices[i])
          /\ pci_log' = [pci_log EXCEPT !.op = "pci_enable_device", !.n = @ + 1,
                                        !.writes = {}, !.arg = <<i>>, !.io = <<>>]
    /\ UNCHANGED <<pci_devices, pci_device_count, bochs_regs, g_gpu_hw, hw_ret>>
    /\ UNCHANGED <<surfVars, blendVars, dispVars, pci_calls>>

NextPci == PciEnumerate \/ GpuHwInit \/ PciReplaceDevice

\* the scan together with the lookups and pci_enable_device, on buses whose slots
\* 2..31 are empty
InitPciOps == InitPci /\ pci_hw.slots[2] = "absent"

NextPciOps ==
    \/ PciEnumerate
    \/ GpuHwInit
    \/ PciFindDevice
    \/ PciFindClass
    \/ PciEnableDevice

SpecPciOps == InitPciOps /\ [][NextPciOps]_vars

SpecPci == InitPci /\ [][NextPci]_vars

\* number of gpu_hw_set_mode calls explored
MaxModeSets == 2

\* the adapters slot 0 may hold while the mode is set; every other slot is empty
HwSlotKinds == {"absent", "vga", "gpu3d", "svga", "igpu", "radeon", "virtio_vga", "nic"}

\* the modes requested: <<width, height, bpp>>
ModeRequests == {<<800, 600, 32>>, <<1024, 768, 16>>}

InitHw ==
    /\ IdleSurface /\ IdleBlend /\ IdleDisplay
    /\ \E k0 \in HwSlotKinds :
          pci_hw = [slots |-> [s \in PciSlots |-> IF s = 0 THEN k0 ELSE "absent"], cmd |-> <<>>]
    /\ pci_devices = [i \in 0..(PCI_MAX_DEVICES - 1) |-> ZeroDevice]
    /\ pci_device_count = 0
    /\ pci_log = PciLogNone
    /\ \E id \in BochsIds : bochs_regs = BochsRegs(id)
    /\ g_gpu_hw = ZeroGpuHw
    /\ hw_ret = "none"
    /\ pci_calls = <<>>

\* a call of gpu_hw_set_mode
GpuHwSetMode ==
    /\ pci_log.modes < MaxModeSets
    /\ \E q \in ModeRequests :
       \E r \in {gpu_hw_set_mode(g_gpu_hw, bochs_regs, q[1], q[2], q[3])} :
          /\ g_gpu_hw' = r.g
          /\ bochs_regs' = r.regs
          /\ hw_ret' = r.ret
          /\ pci_log' = [pci_log EXCEPT !.op = "gpu_hw_set_mode", !.modes = @ + 1,
                                        !.writes = {}, !.arg = q, !.io = r.io]
    /\ UNCHANGED <<pci_hw, pci_devices, pci_device_count>>
    /\ UNCHANGED <<surfVars, blendVars, dispVars, pci_calls>>

\* the environment: the adapter in slot 0 is exchanged for another one
HwReplaceAdapter ==
    /\ pci_log.n < MaxSteps /\ pci_log.op # "replace"
    /\ \E k \in HwSlotKinds :
          /\ pci_hw.slots[0] # k
          /\ pci_hw' = [slots |-> [pci_hw.slots EXCEPT ![0] = k],
                        cmd   |-> [q \in {q \in DOMAIN pci_hw.cmd : q[1] # 0} |-> pci_hw.cmd[q]]]
    /\ pci_log' = [pci_log EXCEPT !.op = "replace", !.writes = {}, !.arg = <<>>, !.io = <<>>]
    /\ UNCHANGED <<pci_devices, pci_device_count, bochs_regs, g_gpu_hw, hw_ret>>
    /\ UNCHANGED <<surfVars, blendVars, dispVars, pci_calls>>

NextHw == GpuHwInit \/ GpuHwSetMode \/ HwReplaceAdapter

SpecHw == InitHw /\ [][NextHw]_vars

-----------------------------------------------------------------------------
(* Two activations of pci_check_device running statement by statement over  *)
(* the shared table and count.  An activation is [pc, slot, func, dev, ret]: *)
(* its position, its arguments, its local dev (a table index), its result.   *)

\* the activations
RegProcs == {1, 2}

\* the (slot, func) arguments registered: the VGA adapter, a function of it that
\* does not answer, the 3D controller
RegArgs == {<<0, 0>>, <<0, 1>>, <<1, 0>>}

\* values of pci_device_count when the activations start: empty table, one
\* entry left, full table
RegCounts == {0, PCI_MAX_DEVICES - 1, PCI_MAX_DEVICES}

\* the functions registered before: functions 0..7 of slots 2, 3, 4, 5 in scan order
RECURSIVE RegisterFirst(_, _, _)
RegisterFirst(t, hw, k) ==
    IF k = 0 THEN t
    ELSE CHOOSE r \in {pci_check_device(t1, hw, 0, 2 + ((k - 1) \div 8), (k - 1) % 8) :
                          t1 \in {RegisterFirst(t, hw, k - 1)}} : TRUE

RegIdle == [pc |-> "idle", slot |-> 0, func |-> 0, dev |-> NullDev, ret |-> "none"]

\* variant: the table is never found full
pci_check_device_full_never(count) == FALSE

\* the table-full test of pci_check_device
pci_check_device_full(count) == count >= PCI_MAX_DEVICES

\* an activation is between its entry and its return
InFlight(p) == pci_calls[p].pc \notin {"idle", "done"}

InitReentry ==
    /\ IdleSurface /\ IdleBlend /\ IdleDisplay
    /\ pci_hw = [slots |-> [s \in PciSlots |-> IF s = 0 THEN "vga" ELSE IF s = 1 THEN "gpu3d"
                                                ELSE "multi8"],
                 cmd   |-> <<>>]
    /\ \E k \in RegCounts :
       \E t \in {RegisterFirst([devs |-> [i \in 0..(PCI_MAX_DEVICES - 1) |-> ZeroDevice],
                                 count |-> 0, writes |-> {}], pci_hw, k)} :
          /\ pci_devices = t.devs
          /\ pci_device_count = t.count
          /\ pci_log = [op |-> "none", writes |-> {}, overlap |-> FALSE, base |-> t.count]
    /\ bochs_regs = "idle" /\ g_gpu_hw = "idle" /\ hw_ret = "none"
    /\ pci_calls = [p \in RegProcs |-> RegIdle]

\* entry of pci_check_device(0, slot, func) in activation p
RegCall(p) ==
    /\ pci_calls[p].pc = "idle"
    /\ \E q \in RegArgs :
          pci_calls' = [pci_calls EXCEPT ![p] = [RegIdle EXCEPT !.pc = "vendor", !.slot = q[1],
                                                               !.func = q[2]]]
    /\ pci_log' = [pci_log EXCEPT !.op = "call",
                                  !.overlap = @ \/ \E o \in RegProcs \ {p} : InFlight(o)]
    /\ UNCHANGED <<pci_hw, pci_devices, pci_device_count, bochs_regs, g_gpu_hw, hw_ret>>
    /\ UNCHANGED <<surfVars, blendVars, dispVars>>

\* vendor = pci_read16(..); if (vendor == 0xFFFF) return 0;
RegVendor(p) ==
    /\ pci_calls[p].pc = "vendor"
    /\ pci_calls' = [pci_calls EXCEPT ![p] =
          IF pci_read16(pci_hw, 0, @.slot, @.func, PCI_VENDOR_ID) = 65535
          THEN [@ EXCEPT !.pc = "done", !.ret = 0]
          ELSE [@ EXCEPT !.pc = "cap"]]
    /\ pci_log' = [pci_log EXCEPT !.op = "vendor"]
    /\ UNCHANGED <<pci_hw, pci_devices, pci_device_count, bochs_regs, g_gpu_hw, hw_ret>>
    /\ UNCHANGED <<surfVars, blendVars, dispVars>>

\* if (pci_device_count >= PCI_MAX_DEVICES) return 0;
RegCap(p) ==
    /\ pci_calls[p].pc = "cap"
    /\ pci_calls' = [pci_calls EXCEPT ![p] =
          IF pci_check_device_full(pci_device_count)
          THEN [@ EXCEPT !.pc = "done", !.ret = 0]
          ELSE [@ EXCEPT !.pc = "dev"]]
    /\ pci_log' = [pci_log EXCEPT !.op = "cap"]
    /\ UNCHANGED <<pci_hw, pci_devices, pci_device_count, bochs_regs, g_gpu_hw, hw_ret>>
    /\ UNCHANGED <<surfVars, blendVars, dispVars>>

\* PCIDevice* dev = &pci_devices[pci_device_count];
RegDev(p) ==
    /\ pci_calls[p].pc = "dev"
    /\ pci_calls' = [pci_calls EXCEPT ![p] = [@ EXCEPT !.pc = "fill", !.dev = pci_device_count]]
    /\ pci_log' = [pci_log EXCEPT !.op = "dev"]
    /\ UNCHANGED <<pci_hw, pci_devices, pci_device_count, bochs_regs, g_gpu_hw, hw_ret>>
    /\ UNCHANGED <<surfVars, blendVars, dispVars>>

\* the stores through dev: identity fields and BARs; a dev past the end of the
\* array is recorded and leaves the array as it is
RegFill(p) ==
    /\ pci_calls[p].pc = "fill"
    /\ \E c \in {pci_calls[p]} :
          /\ pci_devices' = IF c.dev \in DOMAIN pci_devices
                            THEN [pci_devices EXCEPT ![c.dev] =
                                    pci_fill_device(@, pci_hw, 0, c.slot, c.func)]
                            ELSE pci_devices
          /\ pci_log' = [pci_log EXCEPT !.op = "fill",
                                        !.writes = @ \cup {<<c.dev, c.slot, c.func>>}]
    /\ pci_calls' = [pci_calls EXCEPT ![p] = [@ EXCEPT !.pc = "incr"]]
    /\ UNCHANGED <<pci_hw, pci_device_count, bochs_regs, g_gpu_hw, hw_ret>>
    /\ UNCHANGED <<surfVars, blendVars, dispVars>>

\* pci_device_count++; return 1;
RegIncr(p) ==
    /\ pci_calls[p].pc = "incr"
    /\ pci_device_count' = pci_device_count + 1
    /\ pci_calls' = [pci_calls EXCEPT ![p] = [@ EXCEPT !.pc = "done", !.ret = 1]]
    /\ pci_log' = [pci_log EXCEPT !.op = "incr"]
    /\ UNCHANGED <<pci_hw, pci_devices, bochs_regs, g_gpu_hw, hw_ret>>
    /\ UNCHANGED <<surfVars, blendVars, dispVars>>

NextReentry ==
    \E p \in RegProcs :
       RegCall(p) \/ RegVendor(p) \/ RegCap(p) \/ RegDev(p) \/ RegFill(p) \/ RegIncr(p)

SpecReentry == InitReentry /\ [][NextReentry]_vars

\* the functions of bus 0 that answer (vendor word not all ones)
PresentFunctions ==
    {q \in PciSlots \X PciFuncs : pci_read16(pci_hw, 0, q[1], q[2], PCI_VENDOR_ID) # 65535}

\* C5: the registered device count never exceeds 32 and no enumeration stores a
\* device record at table index 32 or above, whatever devices are present.
C5_DeviceCap ==
    /\ pci_device_count \in 0..PCI_MAX_DEVICES
    /\ pci_log.writes \subseteq 0..(PCI_MAX_DEVICES - 1)
    /\ DOMAIN pci_devices = 0..(PCI_MAX_DEVICES - 1)

\* an enumeration of a bus with more than 32 answering functions filled the table
C5_Witness ==
    /\ pci_log.op = "pci_enumerate"
    /\ Cardinality(PresentFunctions) > PCI_MAX_DEVICES
    /\ pci_device_count = PCI_MAX_DEVICES
    /\ pci_log.writes = 0..(PCI_MAX_DEVICES - 1)

\* C6: an enumeration of the hardware the previous enumeration scanned reproduces
\* the device count and every device record of that previous run.
C6_EnumerateIdempotent ==
    [][ (pci_log'.op \in {"pci_enumerate", "gpu_hw_init"} /\ pci_log'.repeat)
            => (/\ pci_device_count' = pci_device_count
                /\ pci_devices' = pci_devices
                /\ pci_log'.writes = 0..(pci_device_count - 1)) ]_vars

\* a second enumeration of unchanged hardware with registered devices
C6_Witness ==
    /\ pci_log.op = "pci_enumerate" /\ pci_log.repeat
    /\ pci_device_count > 2
    /\ \E i \in 0..(pci_device_count - 1) : pci_devices[i].bar_type[1] = 3

\* the table holds no device of the display class
NoDisplayRegistered ==
    \A i \in 0..(pci_device_count - 1) : pci_devices[i].class_code # PCI_CLASS_DISPLAY

\* the Dispi identity register answers a value outside ID0..ID5
IdOutOfRange ==
    LET id == bochs_regs.reg[VBE_DISPI_INDEX_ID] IN id < VBE_DISPI_ID0 \/ id > VBE_DISPI_ID5

\* C8: when gpu_hw_init's scan registers no display-class device and the identity
\* register is outside the adapter's range, the kind is GPU_HW_VBE and -1 is returned.
C8_FallbackToVbe ==
    (pci_log.op = "gpu_hw_init" /\ NoDisplayRegistered /\ IdOutOfRange)
        => (g_gpu_hw.type = GPU_HW_VBE /\ hw_ret = -1 /\ g_gpu_hw.pci_dev = NullDev)

\* gpu_hw_init returned on a bus with devices, none of them a display, and an
\* identity just above the range
C8_Witness ==
    /\ pci_log.op = "gpu_hw_init" /\ NoDisplayRegistered
    /\ bochs_regs.reg[VBE_DISPI_INDEX_ID] = VBE_DISPI_ID5 + 1
    /\ pci_device_count > 0
    /\ g_gpu_hw.type = GPU_HW_VBE /\ hw_ret = -1

\* the last operation was a scan of the bus (alone or inside gpu_hw_init)
AfterScan == pci_log.op \in {"pci_enumerate", "gpu_hw_init"}

\* the table holds a record of function (slot, func) carrying its vendor word
Registered(slot, func) ==
    \E i \in 0..(pci_device_count - 1) :
        /\ pci_devices[i].bus = 0 /\ pci_devices[i].slot = slot /\ pci_devices[i].func = func
        /\ pci_devices[i].vendor_id = pci_read16(pci_hw, 0, slot, func, PCI_VENDOR_ID)

\* the cap was not reached when the scan came to the slot: fewer than 32 records
\* belong to lower slots
RoomAtSlot(slot) ==
    Cardinality({i \in 0..(pci_device_count - 1) : pci_devices[i].slot < slot}) < PCI_MAX_DEVICES

\* C11 as claimed: after a scan, function 0 of every slot reached below the cap is
\* registered if and only if its vendor word is not 0xFFFF.
C11_Original ==
    AfterScan =>
        \A s \in PciSlots :
            RoomAtSlot(s) =>
                (Registered(s, 0) <=> pci_read16(pci_hw, 0, s, 0, PCI_VENDOR_ID) # 65535)

\* C11 (amended): after a scan, function 0 of every slot reached below the cap is
\* registered if and only if its vendor word is neither 0xFFFF nor 0x0000; a slot
\* whose function 0 reads either value contributes no record at all.
C11_FunctionZeroRegistered ==
    AfterScan =>
        \A s \in PciSlots :
            RoomAtSlot(s) =>
                LET vendor == pci_read16(pci_hw, 0, s, 0, PCI_VENDOR_ID) IN
                /\ Registered(s, 0) <=> (vendor # 65535 /\ vendor # 0)
                /\ (vendor = 65535 \/ vendor = 0) =>
                        \A i \in 0..(pci_device_count - 1) : pci_devices[i].slot # s

\* a scan of a bus whose slot 0 reads vendor 0x0000 and whose slot 1 holds a device:
\* the first record is the device of slot 1
C11_Witness ==
    /\ pci_log.op = "pci_enumerate"
    /\ pci_read16(pci_hw, 0, 0, 0, PCI_VENDOR_ID) = 0
    /\ pci_device_count >= 1
    /\ pci_devices[0].slot = 1 /\ pci_devices[0].func = 0

\* position of function (slot, func) in the scan: ascending slot, then function
ScanKey(slot, func) == slot * 8 + func

\* function 0 of the slot carries the multi-function bit in its header-type byte
MultiFunction(slot) == BitAnd(pci_read8(pci_hw, 0, slot, 0, PCI_HEADER_TYPE), 128) # 0

\* the functions a scan is to register, as scan keys: of every slot whose function 0
\* vendor word is outside skipped, function 0 and, behind a multi-function
\* function 0, every function 1..7 whose vendor word is not 0xFFFF
ScanKeys(skipped) ==
    {ScanKey(q[1], q[2]) : q \in
        {q \in PciSlots \X PciFuncs :
            /\ pci_read16(pci_hw, 0, q[1], 0, PCI_VENDOR_ID) \notin skipped
            /\ q[2] = 0 \/ MultiFunction(q[1])
            /\ pci_read16(pci_hw, 0, q[1], q[2], PCI_VENDOR_ID) # 65535}}

\* the scan keys of the records in the table, by index
TableKey(i) == ScanKey(pci_devices[i].slot, pci_devices[i].func)

\* the table lists the first 32 of keys in ascending order: its records carry
\* ascending keys taken from keys, and every key left out lies behind the last
\* record of a full table
ListsFirstOf(keys) ==
    /\ pci_device_count = (IF Cardinality(keys) > PCI_MAX_DEVICES
                           THEN PCI_MAX_DEVICES ELSE Cardinality(keys))
    /\ \A i \in 0..(pci_device_count - 1) :
          /\ TableKey(i) \in keys
          /\ i > 0 => TableKey(i - 1) < TableKey(i)
          /\ pci_devices[i].bus = 0
          /\ pci_devices[i].vendor_id
                = pci_read16(pci_hw, 0, pci_devices[i].slot, pci_devices[i].func, PCI_VENDOR_ID)
    /\ \A tk \in {{TableKey(i) : i \in 0..(pci_device_count - 1)}} :
          \A k \in keys \ tk :
              pci_device_count = PCI_MAX_DEVICES /\ k > TableKey(PCI_MAX_DEVICES - 1)

\* C12 as claimed: after a scan the table lists, in scan order and cut at 32, every
\* answering function 0 and every answering function 1..7 of the slots whose
\* function 0 carries the multi-function bit.
C12_Original == AfterScan => ListsFirstOf(ScanKeys({65535}))

\* C12 (amended): after a scan the table lists, in scan order (ascending slot, then
\* function) and cut at the first 32, the functions of the slots whose function 0
\* reads neither 0xFFFF nor 0x0000: function 0 and, exactly when its header-type
\* byte has bit 0x80 set, every function 1..7 whose vendor word is not 0xFFFF.
C12_ScanOrder == AfterScan => ListsFirstOf(ScanKeys({65535, 0}))

\* a scan of more than 32 answering functions behind a multi-function slot 0 with
\* gaps: function 5 of slot 0 is the fourth record and the table ends inside a slot
C12_Witness ==
    /\ pci_log.op = "pci_enumerate"
    /\ pci_hw.slots[0] = "multi"
    /\ Cardinality(ScanKeys({65535, 0})) > PCI_MAX_DEVICES
    /\ pci_device_count = PCI_MAX_DEVICES
    /\ pci_devices[3].slot = 0 /\ pci_devices[3].func = 5
    /\ pci_devices[PCI_MAX_DEVICES - 1].func \notin {0, 7}

\* the registered entries whose two fields equal the pair looked up
MatchingIds(q) ==
    {i \in 0..(pci_device_count - 1) :
        pci_devices[i].vendor_id = q[1] /\ pci_devices[i].device_id = q[2]}

MatchingClass(q) ==
    {i \in 0..(pci_device_count - 1) :
        pci_devices[i].class_code = q[1] /\ pci_devices[i].subclass = q[2]}

\* ret is the lowest member of hits, or null when hits is empty
LowestOf(hits, ret) ==
    IF hits = {} THEN ret = NullDev ELSE ret \in hits /\ \A j \in hits : ret <= j

\* C13: pci_find_class and pci_find_device return the entry with the lowest index
\* below pci_device_count whose two fields both match, and null when none does.
C13_FindLowestIndex ==
    /\ pci_log.op = "pci_find_class" => LowestOf(MatchingClass(pci_log.arg), hw_ret)
    /\ pci_log.op = "pci_find_device" => LowestOf(MatchingIds(pci_log.arg), hw_ret)

\* a class lookup matched by several registered devices, the first of them behind
\* the four functions of another device
C13_Witness ==
    /\ pci_log.op = "pci_find_class" /\ pci_log.arg = <<2, 0>>
    /\ Cardinality(MatchingClass(pci_log.arg)) > 1
    /\ hw_ret = 4

\* bit k of a 16-bit register value
RegBit(v, k) == (v \div Pow2(k)) % 2

\* the command register of function (slot, func) on bus hw
CommandOf(hw, slot, func) == pci_read16(hw, 0, slot, func, PCI_COMMAND)

\* between bus states hw and hw2 the command register of the function record dev
\* names got bits 0..2 set and kept every other bit, and nothing else changed
EnabledOnly(hw, hw2, dev) ==
    /\ \A k \in 0..15 :
          RegBit(CommandOf(hw2, dev.slot, dev.func), k)
            = (IF k \in {0, 1, 2} THEN 1 ELSE RegBit(CommandOf(hw, dev.slot, dev.func), k))
    /\ \A q \in PciSlots \X PciFuncs :
          q # <<dev.slot, dev.func>> => CommandOf(hw2, q[1], q[2]) = CommandOf(hw, q[1], q[2])
    /\ hw2.slots = hw.slots

\* C14: pci_enable_device (called directly or by gpu_hw_init on the display device it
\* found) leaves the device's command register equal to its previous value OR 0x0007
\* and changes no other register and no table entry.
C14_EnableSetsThreeBits ==
    [][ /\ pci_log'.op = "pci_enable_device" =>
              /\ EnabledOnly(pci_hw, pci_hw', pci_devices[pci_log'.arg[1]])
              /\ pci_devices' = pci_devices /\ pci_device_count' = pci_device_count
        /\ (pci_log'.op = "gpu_hw_init" /\ g_gpu_hw'.pci_dev # NullDev) =>
              EnabledOnly(pci_hw, pci_hw', pci_devices'[g_gpu_hw'.pci_dev])
        /\ (pci_log'.op = "gpu_hw_init" /\ g_gpu_hw'.pci_dev = NullDev) => pci_hw' = pci_hw
      ]_vars

\* the network controller of slot 0, command register 0x0103, was enabled: 0x0107
C14_Witness ==
    /\ pci_log.op = "pci_enable_device" /\ pci_log.arg = <<0>>
    /\ pci_hw.slots[0] = "nic"
    /\ pci_devices[0].slot = 0 /\ pci_devices[0].func = 0
    /\ CommandOf(pci_hw, 0, 0) = 263

\* positions of the data-port writes in a sequence of outw calls
DataWrites(io) == {k \in 1..Len(io) : io[k][1] = VBE_DISPI_IOPORT_DATA}

\* the register a data-port write at position k goes to: the value of the last
\* index-port write before it, or the index idx0 the device had latched
LatchedAt(io, k, idx0) ==
    LET prev == {j \in 1..(k - 1) : io[j][1] = VBE_DISPI_IOPORT_INDEX}
    IN  IF prev = {} THEN idx0 ELSE io[Max(prev)][2]

\* the sequence io writes value v to register r at a position strictly between lo and hi
WrittenBetween(io, idx0, r, v, lo, hi) ==
    \E k \in DataWrites(io) : /\ lo < k /\ k < hi
                              /\ LatchedAt(io, k, idx0) = r /\ io[k][2] = v

\* C15: a mode set on the emulated adapter first writes the enable register
\* 'disabled', writes width, height, bits per pixel, virtual width and virtual
\* height 2 x height while no other write touches the enable register, and ends
\* with the write of enabled | LFB to the enable register.
C15_ModeSetOrder ==
    [][ (pci_log'.op = "gpu_hw_set_mode" /\ g_gpu_hw.type = GPU_HW_BOCHS) =>
          LET io    == pci_log'.io
              idx0  == bochs_regs.index
              dw    == DataWrites(io)
              first == CHOOSE k \in dw : \A j \in dw : k <= j
              final == Max(dw)
              w     == pci_log'.arg[1]
              h     == pci_log'.arg[2]
              bpp   == pci_log'.arg[3]
          IN  /\ dw # {}
              /\ \A k \in 1..Len(io) :
                    io[k][1] \in {VBE_DISPI_IOPORT_INDEX, VBE_DISPI_IOPORT_DATA}
              /\ LatchedAt(io, first, idx0) = VBE_DISPI_INDEX_ENABLE
              /\ io[first][2] = VBE_DISPI_DISABLED
              /\ LatchedAt(io, final, idx0) = VBE_DISPI_INDEX_ENABLE
              /\ io[final][2] = VBE_DISPI_ENABLED + VBE_DISPI_LFB_ENABLED
              /\ final = Len(io)
              /\ \A k \in dw \ {first, final} :
                    LatchedAt(io, k, idx0) # VBE_DISPI_INDEX_ENABLE
              /\ WrittenBetween(io, idx0, VBE_DISPI_INDEX_XRES, w, first, final)
              /\ WrittenBetween(io, idx0, VBE_DISPI_INDEX_YRES, h, first, final)
              /\ WrittenBetween(io, idx0, VBE_DISPI_INDEX_BPP, bpp, first, final)
              /\ WrittenBetween(io, idx0, VBE_DISPI_INDEX_VIRT_WIDTH, w, first, final)
              /\ WrittenBetween(io, idx0, VBE_DISPI_INDEX_VIRT_HEIGHT, 2 * h, first, final)
              /\ bochs_regs'.reg[VBE_DISPI_INDEX_VIRT_HEIGHT] = 2 * bochs_regs'.reg[VBE_DISPI_INDEX_YRES]
              /\ bochs_regs'.reg[VBE_DISPI_INDEX_ENABLE]
                    = VBE_DISPI_ENABLED + VBE_DISPI_LFB_ENABLED
              /\ hw_ret' = 0
      ]_vars

\* a 1024x768x16 mode set on the emulated adapter after an 800x600x32 one
C15_Witness ==
    /\ pci_log.op = "gpu_hw_set_mode" /\ pci_log.arg = <<1024, 768, 16>>
    /\ pci_log.modes = 2
    /\ g_gpu_hw.type = GPU_HW_BOCHS /\ hw_ret = 0
    /\ Len(pci_log.io) = 18
    /\ bochs_regs.reg[VBE_DISPI_INDEX_VIRT_HEIGHT] = 1536
    /\ bochs_regs.reg[VBE_DISPI_INDEX_XRES] = 1024

\* C16: on an adapter of any kind but the emulated VGA adapter, a mode set returns
\* -1, makes no write to the index or data port and leaves the adapter state, its
\* recorded width, height, bpp and pitch included, unchanged.
C16_ModeSetUnsupported ==
    [][ (pci_log'.op = "gpu_hw_set_mode" /\ g_gpu_hw.type # GPU_HW_BOCHS) =>
          /\ hw_ret' = -1
          /\ pci_log'.io = <<>>
          /\ bochs_regs' = bochs_regs
          /\ g_gpu_hw'.width = g_gpu_hw.width /\ g_gpu_hw'.height = g_gpu_hw.height
          /\ g_gpu_hw'.bpp = g_gpu_hw.bpp /\ g_gpu_hw'.pitch = g_gpu_hw.pitch
          /\ g_gpu_hw' = g_gpu_hw
      ]_vars

\* a refused 1024x768x16 mode set on an adapter that is not the emulated one, the
\* geometry of an earlier 800x600x32 mode set still recorded
C16_Witness ==
    /\ pci_log.op = "gpu_hw_set_mode" /\ pci_log.arg = <<1024, 768, 16>>
    /\ g_gpu_hw.type \in {GPU_HW_NONE, GPU_HW_VBE, GPU_HW_VMWARE_SVGA, GPU_HW_INTEL,
                           GPU_HW_AMD, GPU_HW_NVIDIA}
    /\ hw_ret = -1
    /\ g_gpu_hw.width = 800 /\ g_gpu_hw.height = 600 /\ g_gpu_hw.bpp = 32
    /\ g_gpu_hw.pitch = 3200
    /\ bochs_regs.reg[VBE_DISPI_INDEX_XRES] = 800



-----------------------------------------------------------------------------
(* display.h: the layered compositor.  Each layer's pixel buffer is a      *)
(* function index -> ARGB word; the buffers are disjoint, which holds for  *)
(* the geometries of this model (width * height * 4 bytes is far below the *)
(* 0x100000 bytes between two layer base addresses).                       *)

LAYER_BACKGROUND == 0
LAYER_MAIN == 1
LAYER_UI == 2
LAYER_OVERLAY == 3
LAYER_CURSOR == 4
LAYER_COUNT == 5

\* side of the cursor layer set at the end of display_init
CursorSide == 16

\* display_init after a successful gpu_init: the Display record
display_init_display(bi) ==
    [width |-> bi.fb_width, height |-> bi.fb_height, frame_count |-> 0, fps |-> 0,
     last_fps_time |-> 0, frame_time |-> 0,
     layers |-> [i \in 0..(LAYER_COUNT - 1) |->
                    [x |-> 0, y |-> 0,
                     width  |-> IF i = LAYER_CURSOR THEN CursorSide ELSE bi.fb_width,
                     height |-> IF i = LAYER_CURSOR THEN CursorSide ELSE bi.fb_height,
                     visible |-> IF i = LAYER_BACKGROUND \/ i = LAYER_MAIN THEN 1 ELSE 0,
                     alpha |-> 255, dirty |-> 1]],
     cursor_visible |-> 0,
     cursor_x |-> bi.fb_width \div 2, cursor_y |-> bi.fb_height \div 2]

\* display_init: the layer buffers.  The clear loop zeroes width * height words of
\* every buffer; the rest of the cursor layer's 16 x 16 words keeps what memory held
display_init_buffers(bi, garbage) ==
    [i \in 0..(LAYER_COUNT - 1) |->
        [k \in 0..((IF i = LAYER_CURSOR THEN CursorSide * CursorSide
                                        ELSE bi.fb_width * bi.fb_height) - 1) |->
            IF k < bi.fb_width * bi.fb_height THEN Zero32 ELSE garbage]]

display_layer_set_visible(d, type, visible) ==
    IF type >= LAYER_COUNT THEN d
    ELSE [d EXCEPT !.layers[type].visible = visible, !.layers[type].dirty = 1]

display_layer_set_alpha(d, type, alpha) ==
    IF type >= LAYER_COUNT THEN d
    ELSE [d EXCEPT !.layers[type].alpha = alpha, !.layers[type].dirty = 1]

display_layer_set_position(d, type, x, y) ==
    IF type >= LAYER_COUNT THEN d
    ELSE [d EXCEPT !.layers[type].x = x, !.layers[type].y = y, !.layers[type].dirty = 1]

\* display_layer_clear: the Display record and the layer buffers after the call
display_layer_clear(d, bufs, type, color) ==
    IF type >= LAYER_COUNT THEN [d |-> d, bufs |-> bufs]
    ELSE LET size == d.layers[type].width * d.layers[type].height IN
         [d    |-> [d EXCEPT !.layers[type].dirty = 1],
          bufs |-> [bufs EXCEPT ![type] =
                      [k \in DOMAIN bufs[type] |-> IF k < size THEN color ELSE bufs[type][k]]]]

\* display_layer_put_pixel: the layer buffers after the call
display_layer_put_pixel(d, bufs, type, x, y, color) ==
    IF type >= LAYER_COUNT THEN bufs
    ELSE LET layer == d.layers[type] IN
         IF x < 0 \/ x >= layer.width \/ y < 0 \/ y >= layer.height THEN bufs
         ELSE [bufs EXCEPT ![type][y * layer.width + x] = color]

\* the alpha a layer's pixel src contributes with
composite_src_alpha(layer, src) ==
    IF layer.alpha < 255 THEN U8((GET_A(src) * layer.alpha) \div 255) ELSE GET_A(src)

\* variant: the visible flag of the layer is not consulted
composite_layer_ignore_visible(layer, buf, x, y, pixel) ==
    LET lx == x - layer.x
        ly == y - layer.y
    IN  IF lx >= 0 /\ lx < layer.width /\ ly >= 0 /\ ly < layer.height
        THEN LET src       == buf[ly * layer.width + lx]
                 src_alpha == composite_src_alpha(layer, src)
             IN  IF src_alpha = 255 THEN src
                 ELSE IF src_alpha > 0 THEN gpu_blend(src, pixel, src_alpha)
                 ELSE pixel
        ELSE pixel

\* the body of display_composite's layer loop: the accumulator after the layer
composite_layer(layer, buf, x, y, pixel) ==
    IF layer.visible = 0 THEN pixel
    ELSE LET lx == x - layer.x
             ly == y - layer.y
         IN  IF lx >= 0 /\ lx < layer.width /\ ly >= 0 /\ ly < layer.height
             THEN LET src       == buf[ly * layer.width + lx]
                      src_alpha == composite_src_alpha(layer, src)
                  IN  IF src_alpha = 255 THEN src
                      ELSE IF src_alpha > 0 THEN gpu_blend(src, pixel, src_alpha)
                      ELSE pixel
             ELSE pixel

\* variant: the layers are visited from the Cursor layer down to Background
RECURSIVE composite_layers_top_down(_, _, _, _, _, _)
composite_layers_top_down(d, bufs, x, y, i, pixel) ==
    IF i >= LAYER_COUNT THEN pixel
    ELSE CHOOSE r \in
            {composite_layers_top_down(d, bufs, x, y, i + 1, p) :
                p \in {composite_layer(d.layers[LAYER_COUNT - 1 - i],
                                       bufs[LAYER_COUNT - 1 - i], x, y, pixel)}} : TRUE

\* the layer loop of display_composite from layer i on, the accumulator being pixel
RECURSIVE composite_layers(_, _, _, _, _, _)
composite_layers(d, bufs, x, y, i, pixel) ==
    IF i >= LAYER_COUNT THEN pixel
    ELSE CHOOSE r \in
            {composite_layers(d, bufs, x, y, i + 1, p) :
                p \in {composite_layer(d.layers[i], bufs[i], x, y, pixel)}} : TRUE

\* display_composite: the accumulator of every pixel and the stores of the
\* gpu_put_pixel calls, rows first
display_composite(d, bufs) ==
    LET acc == [q \in (0..(d.width - 1)) \X (0..(d.height - 1)) |->
                    composite_layers(d, bufs, q[1], q[2], 0, Zero32)]
    IN  [acc |-> acc,
         st  |-> FlattenSeq([yi \in 1..d.height |->
                    FlattenSeq([xi \in 1..d.width |->
                        gpu_put_pixel(xi - 1, yi - 1, acc[<<xi - 1, yi - 1>>])])])]



\* display_init run again: the clear loop zeroes width * height words of every
\* layer buffer, the other words keep their content
display_init_clear_layers(bi, bufs) ==
    [i \in DOMAIN bufs |->
        [k \in DOMAIN bufs[i] |-> IF k < bi.fb_width * bi.fb_height THEN Zero32 ELSE bufs[i][k]]]

\* variant: the tick counter is left alone
display_begin_frame_no_tick(d, ticks) ==
    [d |-> [d EXCEPT !.frame_count = @ + 1], ticks |-> ticks]

\* display_begin_frame: the Display record and g_tick_count after the call (both
\* counters are uint32_t; the operation bounds keep them far below 2^32)
display_begin_frame(d, ticks) ==
    [d |-> [d EXCEPT !.frame_count = @ + 1], ticks |-> ticks + 1]

\* gpu_present on the back-buffer content mem: the stores into the front buffer
gpu_present_of(mem) ==
    FlattenSeq([yy \in 1..g_backbuffer.height |->
                  [ii \in 1..gpu_present_row_bytes(g_backbuffer, g_gpu) |->
                      <<(yy - 1) * g_gpu.pitch + (ii - 1),
                        Load8(mem, (yy - 1) * g_backbuffer.pitch + (ii - 1))>>]])

\* display_end_frame: display_composite, gpu_present, gpu_wait_vsync (a delay loop)
display_end_frame(d, bufs) ==
    LET c    == display_composite(d, bufs)
        back == ApplyStores(back_mem, c.st)
    IN  [acc |-> c.acc, back |-> back, front |-> ApplyStores(front_mem, gpu_present_of(back))]

display_set_cursor_visible(d, visible) ==
    display_layer_set_visible([d EXCEPT !.cursor_visible = visible], LAYER_CURSOR, visible)

\* variant: the position is recorded and the Cursor layer stays where it is
display_set_cursor_position_fields_only(d, x, y) ==
    [d EXCEPT !.cursor_x = x, !.cursor_y = y]

display_set_cursor_position(d, x, y) ==
    display_layer_set_position([d EXCEPT !.cursor_x = x, !.cursor_y = y], LAYER_CURSOR, x, y)

-----------------------------------------------------------------------------
(* The compositor as a state machine *)

\* number of display operations explored after display_init
MaxDisplayOps == 4

\* handoff records of the display model: 2 x 1 pixels, 32 and 16 bits per pixel
DisplayBootInfos ==
    {[fb_addr |-> 1073741824, fb_pitch |-> 2 * (bpp \div 8), fb_width |-> 2, fb_height |-> 1,
      fb_bpp |-> bpp, fb_type |-> 1] : bpp \in {32, 16}}

\* what the uncleared words of the cursor buffer may hold
GarbageWords == {Zero32, <<205, 205, 205, 205>>}

\* layer pixels written: opaque, half transparent, fully transparent (0xFF302010,
\* 0x80C86432, 0x00070707)
LayerColors == {<<16, 32, 48, 255>>, <<50, 100, 200, 128>>, <<7, 7, 7, 0>>}

\* layers the pixel, alpha and position operations are applied to
DrawnLayers == {LAYER_BACKGROUND, LAYER_MAIN}

\* layers whose visibility is switched
SwitchedLayers == {LAYER_BACKGROUND, LAYER_MAIN, LAYER_CURSOR}

LayerCoords == {<<0, 0>>, <<1, 0>>}

LayerAlphas == {128, 255}

LayerPositions == {<<0, 0>>, <<1, 0>>}

InitDisplay ==
    /\ IdleBlend /\ IdlePci
    /\ \E bi \in DisplayBootInfos, garbage \in GarbageWords :
          /\ info = bi
          /\ g_gpu = gpu_init_device(bi)
          /\ g_backbuffer = gpu_init_backbuffer(bi)
          /\ g_viewport = gpu_init_viewport(bi)
          /\ back_mem = gpu_init_clear(gpu_init_backbuffer(bi))
          /\ front_mem = [o \in 0..(bi.fb_pitch * bi.fb_height - 1) |-> 170]
          /\ g_display = display_init_display(bi)
          /\ layer_buf = display_init_buffers(bi, garbage)
    /\ g_ctx = "idle"
    /\ last = NoOp
    /\ steps = 0
    /\ g_tick_count = 0
    /\ comp_out = <<>>

DisplayLayerSetVisible ==
    /\ steps < MaxDisplayOps
    /\ \E type \in SwitchedLayers, visible \in {0, 1} :
          g_display' = display_layer_set_visible(g_display, type, visible)
    /\ last' = [NoOp EXCEPT !.op = "display_layer_set_visible"]
    /\ steps' = steps + 1
    /\ UNCHANGED <<info, g_gpu, g_backbuffer, g_viewport, g_ctx, back_mem, front_mem>>
    /\ UNCHANGED <<layer_buf, g_tick_count, comp_out, blendVars, pciVars>>

DisplayLayerSetAlpha ==
    /\ steps < MaxDisplayOps
    /\ \E type \in DrawnLayers, alpha \in LayerAlphas :
          g_display' = display_layer_set_alpha(g_display, type, alpha)
    /\ last' = [NoOp EXCEPT !.op = "display_layer_set_alpha"]
    /\ steps' = steps + 1
    /\ UNCHANGED <<info, g_gpu, g_backbuffer, g_viewport, g_ctx, back_mem, front_mem>>
    /\ UNCHANGED <<layer_buf, g_tick_count, comp_out, blendVars, pciVars>>

DisplayLayerSetPosition ==
    /\ steps < MaxDisplayOps
    /\ \E type \in DrawnLayers, p \in LayerPositions :
          g_display' = display_layer_set_position(g_display, type, p[1], p[2])
    /\ last' = [NoOp EXCEPT !.op = "display_layer_set_position"]
    /\ steps' = steps + 1
    /\ UNCHANGED <<info, g_gpu, g_backbuffer, g_viewport, g_ctx, back_mem, front_mem>>
    /\ UNCHANGED <<layer_buf, g_tick_count, comp_out, blendVars, pciVars>>

DisplayLayerPutPixel ==
    /\ steps < MaxDisplayOps
    /\ \E type \in DrawnLayers, p \in LayerCoords, color \in LayerColors :
          layer_buf' = display_layer_put_pixel(g_display, layer_buf, type, p[1], p[2], color)
    /\ last' = [NoOp EXCEPT !.op = "display_layer_put_pixel"]
    /\ steps' = steps + 1
    /\ UNCHANGED <<info, g_gpu, g_backbuffer, g_viewport, g_ctx, back_mem, front_mem>>
    /\ UNCHANGED <<g_display, g_tick_count, comp_out, blendVars, pciVars>>

DisplayComposite ==
    /\ steps < MaxDisplayOps
    /\ \E c \in {display_composite(g_display, layer_buf)} :
          /\ comp_out' = c.acc
          /\ back_mem' = ApplyStores(back_mem, c.st)
          /\ last' = [NoOp EXCEPT !.op = "display_composite", !.wr = StoreOffsets(c.st)]
    /\ steps' = steps + 1
    /\ UNCHANGED <<info, g_gpu, g_backbuffer, g_viewport, g_ctx, front_mem>>
    /\ UNCHANGED <<g_display, layer_buf, g_tick_count, blendVars, pciVars>>

NextDisplay ==
    \/ DisplayLayerSetVisible
    \/ DisplayLayerSetAlpha
    \/ DisplayLayerSetPosition
    \/ DisplayLayerPutPixel
    \/ DisplayComposite

SpecDisplay == InitDisplay /\ [][NextDisplay]_vars

-----------------------------------------------------------------------------
(* Frame management: display_init may run again, frames begin and end,     *)
(* the cursor is shown and moved, layers change and are composited.        *)

\* display_init called again with the same handoff record
DisplayInit ==
    /\ steps < MaxDisplayOps
    /\ IF gpu_init_fails(info)
       THEN UNCHANGED <<g_gpu, g_backbuffer, g_viewport, back_mem, g_display, layer_buf>>
       ELSE /\ g_gpu' = gpu_init_device(info)
            /\ g_backbuffer' = gpu_init_backbuffer(info)
            /\ g_viewport' = gpu_init_viewport(info)
            /\ back_mem' = gpu_init_clear(gpu_init_backbuffer(info))
            /\ g_display' = display_init_display(info)
            /\ layer_buf' = display_init_clear_layers(info, layer_buf)
    /\ last' = [NoOp EXCEPT !.op = "display_init",
                            !.code = IF gpu_init_fails(info) THEN -1 ELSE 0]
    /\ steps' = steps + 1
    /\ UNCHANGED <<info, g_ctx, front_mem, g_tick_count, comp_out, blendVars, pciVars>>

DisplayBeginFrame ==
    /\ steps < MaxDisplayOps
    /\ \E r \in {display_begin_frame(g_display, g_tick_count)} :
          g_display' = r.d /\ g_tick_count' = r.ticks
    /\ last' = [NoOp EXCEPT !.op = "display_begin_frame"]
    /\ steps' = steps + 1
    /\ UNCHANGED <<info, g_gpu, g_backbuffer, g_viewport, g_ctx, back_mem, front_mem>>
    /\ UNCHANGED <<layer_buf, comp_out, blendVars, pciVars>>

DisplayEndFrame ==
    /\ steps < MaxDisplayOps
    /\ \E r \in {display_end_frame(g_display, layer_buf)} :
          comp_out' = r.acc /\ back_mem' = r.back /\ front_mem' = r.front
    /\ last' = [NoOp EXCEPT !.op = "display_end_frame"]
    /\ steps' = steps + 1
    /\ UNCHANGED <<info, g_gpu, g_backbuffer, g_viewport, g_ctx>>
    /\ UNCHANGED <<g_display, layer_buf, g_tick_count, blendVars, pciVars>>

\* cursor positions set
CursorPositions == {<<0, 0>>, <<1, 0>>}

DisplaySetCursorVisible ==
    /\ steps < MaxDisplayOps
    /\ \E visible \in {0, 1} :
          g_display' = display_set_cursor_visible(g_display, visible)
    /\ last' = [NoOp EXCEPT !.op = "display_set_cursor_visible"]
    /\ steps' = steps + 1
    /\ UNCHANGED <<info, g_gpu, g_backbuffer, g_viewport, g_ctx, back_mem, front_mem>>
    /\ UNCHANGED <<layer_buf, g_tick_count, comp_out, blendVars, pciVars>>

DisplaySetCursorPosition ==
    /\ steps < MaxDisplayOps
    /\ \E p \in CursorPositions :
          g_display' = display_set_cursor_position(g_display, p[1], p[2])
    /\ last' = [NoOp EXCEPT !.op = "display_set_cursor_position"]
    /\ steps' = steps + 1
    /\ UNCHANGED <<info, g_gpu, g_backbuffer, g_viewport, g_ctx, back_mem, front_mem>>
    /\ UNCHANGED <<layer_buf, g_tick_count, comp_out, blendVars, pciVars>>

NextFrame ==
    \/ DisplayInit
    \/ DisplayBeginFrame
    \/ DisplayEndFrame
    \/ DisplaySetCursorVisible
    \/ DisplaySetCursorPosition
    \/ DisplayLayerSetVisible
    \/ DisplayLayerSetAlpha
    \/ DisplayComposite

SpecFrame == InitDisplay /\ [][NextFrame]_vars

-----------------------------------------------------------------------------
(* The buffers in the address space.  For the modes of a real adapter the   *)
(* buffers are too large to be held byte by byte: an operation is recorded *)
(* by the address ranges it stores to, [buf, lo, hi] standing for the      *)
(* bytes lo .. hi - 1 reached through buffer buf (a layer, or LAYER_COUNT  *)
(* for the back buffer).  Buffer contents are not tracked here.            *)

BACKBUFFER_ADDR == 2097152
LAYER_BG_ADDR == 3145728
LAYER_MAIN_ADDR == 4194304
LAYER_UI_ADDR == 5242880
LAYER_OVERLAY_ADDR == 6291456
LAYER_CURSOR_ADDR == 7340032

\* layer_addrs[] of display_init
layer_addrs ==
    [i \in 0..(LAYER_COUNT - 1) |->
        CASE i = LAYER_BACKGROUND -> LAYER_BG_ADDR
          [] i = LAYER_MAIN       -> LAYER_MAIN_ADDR
          [] i = LAYER_UI         -> LAYER_UI_ADDR
          [] i = LAYER_OVERLAY    -> LAYER_OVERLAY_ADDR
          [] i = LAYER_CURSOR     -> LAYER_CURSOR_ADDR]

\* the stores of gpu_init and display_init: the back buffer's clear loop, then the
\* clear loop of every layer (width * height words each, the cursor layer's too)
display_init_spans(bi) ==
    {[buf |-> LAYER_COUNT, lo |-> BACKBUFFER_ADDR,
      hi |-> BACKBUFFER_ADDR + gpu_init_clear_bytes(gpu_init_backbuffer(bi))]}
    \cup {[buf |-> i, lo |-> layer_addrs[i],
           hi |-> layer_addrs[i] + bi.fb_width * bi.fb_height * 4] :
              i \in 0..(LAYER_COUNT - 1)}

\* the store of display_layer_put_pixel
display_layer_put_pixel_spans(d, type, x, y) ==
    IF type >= LAYER_COUNT THEN {}
    ELSE LET layer == d.layers[type] IN
         IF x < 0 \/ x >= layer.width \/ y < 0 \/ y >= layer.height THEN {}
         ELSE {[buf |-> type, lo |-> layer_addrs[type] + (y * layer.width + x) * 4,
                hi |-> layer_addrs[type] + (y * layer.width + x) * 4 + 4]}

\* the stores of display_layer_clear
display_layer_clear_spans(d, type) ==
    IF type >= LAYER_COUNT THEN {}
    ELSE {[buf |-> type, lo |-> layer_addrs[type],
           hi |-> layer_addrs[type] + d.layers[type].width * d.layers[type].height * 4]}

\* the stores of gpu_put_pixel (gpu.h) into the back buffer
gpu_put_pixel_spans(x, y) ==
    IF x < 0 \/ x >= g_backbuffer.width \/ y < 0 \/ y >= g_backbuffer.height THEN {}
    ELSE LET p == BACKBUFFER_ADDR + y * g_backbuffer.pitch + x * (g_backbuffer.bpp \div 8)
         IN  {[buf |-> LAYER_COUNT, lo |-> p, hi |-> p + (g_backbuffer.bpp \div 8)]}

\* handoff records of adapter modes up to 1024x768
ModeBootInfos ==
    {[fb_addr |-> 1073741824, fb_pitch |-> g[1] * (bpp \div 8), fb_width |-> g[1],
      fb_height |-> g[2], fb_bpp |-> bpp, fb_type |-> 1] :
        g \in {<<320, 200>>, <<640, 480>>, <<800, 600>>, <<1024, 768>>}, bpp \in {16, 24, 32}}

\* the state after display_init
InitRegions ==
    /\ IdleBlend /\ IdlePci
    /\ \E bi \in ModeBootInfos :
          /\ info = bi
          /\ g_gpu = gpu_init_device(bi)
          /\ g_backbuffer = gpu_init_backbuffer(bi)
          /\ g_viewport = gpu_init_viewport(bi)
          /\ g_display = display_init_display(bi)
          /\ last = [NoOp EXCEPT !.op = "display_init", !.spans = display_init_spans(bi)]
    /\ back_mem = <<>> /\ front_mem = <<>> /\ layer_buf = <<>>
    /\ g_ctx = "idle"
    /\ steps = 0
    /\ g_tick_count = 0
    /\ comp_out = <<>>

\* pixels written: the corners of the display, the last pixel of the cursor layer
\* and a pixel outside
CornerCoords == {<<0, 0>>, <<info.fb_width - 1, info.fb_height - 1>>, <<15, 15>>, <<-1, 0>>}

RegionsLayerPutPixel ==
    /\ steps < MaxSteps
    /\ \E type \in 0..(LAYER_COUNT - 1), p \in CornerCoords :
          last' = [NoOp EXCEPT !.op = "display_layer_put_pixel", !.x = p[1], !.y = p[2],
                               !.spans = display_layer_put_pixel_spans(g_display, type, p[1], p[2])]
    /\ steps' = steps + 1
    /\ UNCHANGED <<info, g_gpu, g_backbuffer, g_viewport, g_ctx, back_mem, front_mem>>
    /\ UNCHANGED <<dispVars, blendVars, pciVars>>

RegionsLayerClear ==
    /\ steps < MaxSteps
    /\ \E type \in 0..(LAYER_COUNT - 1) :
          /\ last' = [NoOp EXCEPT !.op = "display_layer_clear",
                                  !.spans = display_layer_clear_spans(g_display, type)]
          /\ g_display' = [g_display EXCEPT !.layers[type].dirty = 1]
    /\ steps' = steps + 1
    /\ UNCHANGED <<info, g_gpu, g_backbuffer, g_viewport, g_ctx, back_mem, front_mem>>
    /\ UNCHANGED <<layer_buf, g_tick_count, comp_out, blendVars, pciVars>>

RegionsGpuPutPixel ==
    /\ steps < MaxSteps
    /\ \E p \in CornerCoords :
          last' = [NoOp EXCEPT !.op = "gpu_put_pixel", !.x = p[1], !.y = p[2],
                               !.spans = gpu_put_pixel_spans(p[1], p[2])]
    /\ steps' = steps + 1
    /\ UNCHANGED <<info, g_gpu, g_backbuffer, g_viewport, g_ctx, back_mem, front_mem>>
    /\ UNCHANGED <<dispVars, blendVars, pciVars>>

NextRegions == RegionsLayerPutPixel \/ RegionsLayerClear \/ RegionsGpuPutPixel

SpecRegions == InitRegions /\ [][NextRegions]_vars

-----------------------------------------------------------------------------
(* The cursor functions beside the layer functions applied to the Cursor layer *)

\* a call of display_layer_set_position on the Cursor layer
CursorLayerSetPosition ==
    /\ steps < MaxDisplayOps
    /\ \E p \in CursorPositions :
          g_display' = display_layer_set_position(g_display, LAYER_CURSOR, p[1], p[2])
    /\ last' = [NoOp EXCEPT !.op = "display_layer_set_position"]
    /\ steps' = steps + 1
    /\ UNCHANGED <<info, g_gpu, g_backbuffer, g_viewport, g_ctx, back_mem, front_mem>>
    /\ UNCHANGED <<layer_buf, g_tick_count, comp_out, blendVars, pciVars>>

NextCursor ==
    \/ DisplayInit
    \/ DisplaySetCursorVisible
    \/ DisplaySetCursorPosition
    \/ DisplayLayerSetVisible
    \/ CursorLayerSetPosition

SpecCursor == InitDisplay /\ [][NextCursor]_vars

-----------------------------------------------------------------------------
(* The six layer operations and the dirty flag.  A caller holds the Layer   *)
(* pointer display_get_layer returns and clears the flag through it.        *)

\* number of layer operations explored
MaxDirtyOps == 3

\* display_get_layer: the index of the layer pointed to, or NullDev for the null pointer
display_get_layer(type) == IF type >= LAYER_COUNT THEN NullDev ELSE type

\* display_layer_fill_rect: the display and the buffers after the call
display_layer_fill_rect(d, bufs, type, x, y, w, h, color) ==
    IF type >= LAYER_COUNT THEN [d |-> d, bufs |-> bufs]
    ELSE LET layer == d.layers[type]
             hit(k) == \E dy \in 0..(h - 1), dx \in 0..(w - 1) :
                          /\ x + dx >= 0 /\ x + dx < layer.width
                          /\ y + dy >= 0 /\ y + dy < layer.height
                          /\ k = (y + dy) * layer.width + (x + dx)
         IN  [d    |-> [d EXCEPT !.layers[type].dirty = 1],
              bufs |-> [bufs EXCEPT ![type] =
                          [k \in DOMAIN bufs[type] |-> IF hit(k) THEN color ELSE bufs[type][k]]]]

\* the layers operated on
DirtyLayers == {LAYER_MAIN, LAYER_UI}

\* the colour drawn
DirtyColor == <<16, 32, 48, 255>>

\* pixel coordinates: on the 2x1 layer and off it
DirtyCoords == {<<0, 0>>, <<2, 0>>}

\* the shape of an operation on the layers: what it does to g_display and
\* layer_buf is given by the caller
DirtyFrame(op) ==
    /\ steps < MaxDirtyOps
    /\ last' = [NoOp EXCEPT !.op = op]
    /\ steps' = steps + 1
    /\ UNCHANGED <<info, g_gpu, g_backbuffer, g_viewport, g_ctx, back_mem, front_mem>>
    /\ UNCHANGED <<g_tick_count, comp_out, blendVars, pciVars>>

\* a caller clears the dirty flag through display_get_layer(type)
LayerClearDirty ==
    /\ \E type \in DirtyLayers :
       \E layer \in {display_get_layer(type)} :
          /\ layer # NullDev
          /\ g_display.layers[layer].dirty = 1
          /\ g_display' = [g_display EXCEPT !.layers[layer].dirty = 0]
    /\ layer_buf' = layer_buf
    /\ last' = [NoOp EXCEPT !.op = "clear_dirty"]
    /\ UNCHANGED steps
    /\ UNCHANGED <<info, g_gpu, g_backbuffer, g_viewport, g_ctx, back_mem, front_mem>>
    /\ UNCHANGED <<g_tick_count, comp_out, blendVars, pciVars>>

DirtySetVisible ==
    /\ \E type \in DirtyLayers, visible \in {0, 1} :
          g_display' = display_layer_set_visible(g_display, type, visible)
    /\ layer_buf' = layer_buf
    /\ DirtyFrame("display_layer_set_visible")

DirtySetAlpha ==
    /\ \E type \in DirtyLayers :
          g_display' = display_layer_set_alpha(g_display, type, 128)
    /\ layer_buf' = layer_buf
    /\ DirtyFrame("display_layer_set_alpha")

DirtySetPosition ==
    /\ \E type \in DirtyLayers :
          g_display' = display_layer_set_position(g_display, type, 1, 0)
    /\ layer_buf' = layer_buf
    /\ DirtyFrame("display_layer_set_position")

DirtyClear ==
    /\ \E type \in DirtyLayers :
       \E r \in {display_layer_clear(g_display, layer_buf, type, DirtyColor)} :
          g_display' = r.d /\ layer_buf' = r.bufs
    /\ DirtyFrame("display_layer_clear")

DirtyPutPixel ==
    /\ \E type \in DirtyLayers, q \in DirtyCoords :
          layer_buf' = display_layer_put_pixel(g_display, layer_buf, type, q[1], q[2], DirtyColor)
    /\ g_display' = g_display
    /\ DirtyFrame("display_layer_put_pixel")

DirtyFillRect ==
    /\ \E type \in DirtyLayers, q \in DirtyCoords :
       \E r \in {display_layer_fill_rect(g_display, layer_buf, type, q[1], q[2], 1, 1,
                                         DirtyColor)} :
          g_display' = r.d /\ layer_buf' = r.bufs
    /\ DirtyFrame("display_layer_fill_rect")

NextDirty ==
    \/ LayerClearDirty
    \/ DirtySetVisible
    \/ DirtySetAlpha
    \/ DirtySetPosition
    \/ DirtyClear
    \/ DirtyPutPixel
    \/ DirtyFillRect

SpecDirty == InitDisplay /\ [][NextDirty]_vars

-----------------------------------------------------------------------------
(* gpu_present_rect under any viewport.  back_mem and front_mem hold the    *)
(* surfaces together with the bytes before and after them in memory, which  *)
(* belong to something else and hold 0xAA.                                  *)

\* offsets from the surface's first byte: the surface and the memory around it
WideOffsets == (-32)..95

\* viewports installed: the full surface, one extending past the right and bottom
\* edges, one extending past the left and top edges, one lying outside the surface
WideViewports == {<<0, 0, 3, 2>>, <<0, 0, 5, 4>>, <<-1, -1, 3, 2>>, <<4, 3, 2, 2>>}

InitWide ==
    /\ \E bi \in {b \in SurfaceBootInfos : b.fb_bpp = 32} :
          /\ info = bi
          /\ g_gpu = gpu_init_device(bi)
          /\ g_backbuffer = gpu_init_backbuffer(bi)
          /\ g_viewport = gpu_init_viewport(bi)
          /\ g_ctx = gfx_init_ctx(bi)
          /\ back_mem = [o \in WideOffsets |->
                           IF o \in 0..(gpu_init_clear_bytes(gpu_init_backbuffer(bi)) - 1)
                           THEN 0 ELSE 170]
          /\ front_mem = [o \in WideOffsets |-> 170]
    /\ last = NoOp
    /\ steps = 0
    /\ IdleBlend /\ IdleDisplay /\ IdlePci

\* a call of gpu_set_viewport with any rectangle
GpuSetViewportWide ==
    /\ \E v \in WideViewports :
          /\ g_viewport' = gpu_set_viewport(v[1], v[2], v[3], v[4])
          /\ g_viewport' # g_viewport
          /\ last' = [NoOp EXCEPT !.op = "gpu_set_viewport", !.rect = v]
    /\ UNCHANGED <<info, g_gpu, g_backbuffer, g_ctx, back_mem, front_mem, steps>>
    /\ UNCHANGED <<blendVars, dispVars, pciVars>>

NextWide == GpuSetViewportWide \/ GpuPresentRect

SpecWide == InitWide /\ [][NextWide]_vars

-----------------------------------------------------------------------------
(* Line drawing.  A line routine yields [pts, done]: the points handed to   *)
(* put_pixel in call order, and whether the loop reached its break within   *)
(* MaxLineIters iterations.                                                 *)

\* loop iterations followed before a line is given up as not terminating
MaxLineIters == 12

\* graphics.h abs_int
abs_int(x) == IF x < 0 THEN -x ELSE x

\* gpu.h gpu_abs
gpu_abs(x) == IF x < 0 THEN -x ELSE x

\* the while loop of gfx_draw_line and of gpu_draw_line from the state
\* (x0, y0, err) on, with n iterations left
RECURSIVE draw_line_loop(_, _, _, _, _, _, _, _, _, _)
draw_line_loop(x0, y0, x1, y1, dx, dy, sx, sy, err, n) ==
    IF n = 0 THEN [pts |-> <<>>, done |-> FALSE]
    ELSE IF x0 = x1 /\ y0 = y1 THEN [pts |-> << <<x0, y0>> >>, done |-> TRUE]
    ELSE LET e2   == 2 * err
             errx == IF e2 > -dy THEN err - dy ELSE err
             nx   == IF e2 > -dy THEN x0 + sx ELSE x0
             erry == IF e2 < dx THEN errx + dx ELSE errx
             ny   == IF e2 < dx THEN y0 + sy ELSE y0
         IN  CHOOSE r \in
               {[pts |-> << <<x0, y0>> >> \o rest.pts, done |-> rest.done] :
                  rest \in {draw_line_loop(nx, ny, x1, y1, dx, dy, sx, sy, erry, n - 1)}} : TRUE

\* variant: the break is taken before the last point is plotted
gfx_draw_line_open_end(x0, y0, x1, y1) ==
    LET r == draw_line_loop(x0, y0, x1, y1, abs_int(x1 - x0), abs_int(y1 - y0),
                            IF x0 < x1 THEN 1 ELSE -1, IF y0 < y1 THEN 1 ELSE -1,
                            abs_int(x1 - x0) - abs_int(y1 - y0), MaxLineIters)
    IN  [pts |-> SubSeq(r.pts, 1, Len(r.pts) - 1), done |-> r.done]

gfx_draw_line(x0, y0, x1, y1) ==
    draw_line_loop(x0, y0, x1, y1, abs_int(x1 - x0), abs_int(y1 - y0),
                   IF x0 < x1 THEN 1 ELSE -1, IF y0 < y1 THEN 1 ELSE -1,
                   abs_int(x1 - x0) - abs_int(y1 - y0), MaxLineIters)

gpu_draw_line(x0, y0, x1, y1) ==
    draw_line_loop(x0, y0, x1, y1, gpu_abs(x1 - x0), gpu_abs(y1 - y0),
                   IF x0 < x1 THEN 1 ELSE -1, IF y0 < y1 THEN 1 ELSE -1,
                   gpu_abs(x1 - x0) - gpu_abs(y1 - y0), MaxLineIters)

\* largest endpoint coordinate explored
MaxLineCoord == 3

\* endpoint coordinates: on the 3x2 surface and off each of its edges
LineCoords == (-2)..MaxLineCoord

InitLine ==
    /\ \E bi \in {b \in SurfaceBootInfos : b.fb_bpp = 32 /\ b.fb_pitch = 12} : InitSurfaceFrom(bi)
    /\ IdleBlend /\ IdleDisplay /\ IdlePci

\* a call of gfx_draw_line
GfxDrawLine ==
    /\ steps = 0
    /\ \E a \in LineCoords \X LineCoords, b \in LineCoords \X LineCoords :
       \E r \in {gfx_draw_line(a[1], a[2], b[1], b[2])} :
       \E st \in {gfx_plot_all(r.pts, <<255, 255, 255, 255>>)} :
         /\ front_mem' = ApplyStores(front_mem, st)
         /\ last' = [NoOp EXCEPT !.op = "gfx_draw_line", !.x = a[1], !.y = a[2], !.rect = b,
                                 !.color = <<255, 255, 255, 255>>, !.wr = StoreOffsets(st),
                                 !.plotted = r.pts, !.code = IF r.done THEN 0 ELSE -1]
    /\ steps' = steps + 1
    /\ UNCHANGED <<info, g_gpu, g_backbuffer, g_viewport, g_ctx, back_mem>>
    /\ UNCHANGED <<blendVars, dispVars, pciVars>>

\* a call of gpu_draw_line
GpuDrawLine ==
    /\ steps = 0
    /\ \E a \in LineCoords \X LineCoords, b \in LineCoords \X LineCoords :
       \E r \in {gpu_draw_line(a[1], a[2], b[1], b[2])} :
       \E st \in {gpu_plot_all(r.pts, <<255, 255, 255, 255>>)} :
         /\ back_mem' = ApplyStores(back_mem, st)
         /\ last' = [NoOp EXCEPT !.op = "gpu_draw_line", !.x = a[1], !.y = a[2], !.rect = b,
                                 !.color = <<255, 255, 255, 255>>, !.wr = StoreOffsets(st),
                                 !.plotted = r.pts, !.code = IF r.done THEN 0 ELSE -1]
    /\ steps' = steps + 1
    /\ UNCHANGED <<info, g_gpu, g_backbuffer, g_viewport, g_ctx, front_mem>>
    /\ UNCHANGED <<blendVars, dispVars, pciVars>>

NextLine == GfxDrawLine \/ GpuDrawLine

SpecLine == InitLine /\ [][NextLine]_vars

-----------------------------------------------------------------------------
(* graphics.h: the fixed-point sine and cosine (256 is 1.0) *)

\* the C remainder a % b for b > 0: the sign of the result is the sign of a
CRem(a, b) == IF a >= 0 THEN a % b ELSE -((-a) % b)

sin_approx(angle) ==
    LET a0       == CRem(angle, 360)
        a1       == IF a0 < 0 THEN a0 + 360 ELSE a0
        quadrant == a1 \div 90
        a        == a1 % 90
        x        == (a * 256) \div 90
        y        == (x * (512 - x)) \div 256
    IN  CASE quadrant = 0 -> y
          [] quadrant = 1 -> 256 - (y - 256)
          [] quadrant = 2 -> -y
          [] quadrant = 3 -> -(256 - (y - 256))
          [] OTHER -> 0

cos_approx(angle) == sin_approx(angle + 90)

\* largest magnitude of the angles evaluated
MaxAngle == 450

TrigAngles == (-MaxAngle)..MaxAngle

InitTrig == IdleSurface /\ IdleBlend /\ IdleDisplay /\ IdlePci

\* a call of sin_approx
SinApprox ==
    /\ steps = 0
    /\ \E angle \in TrigAngles :
          last' = [NoOp EXCEPT !.op = "sin_approx", !.x = angle, !.code = sin_approx(angle)]
    /\ steps' = steps + 1
    /\ UNCHANGED <<info, g_gpu, g_backbuffer, g_viewport, g_ctx, back_mem, front_mem>>
    /\ UNCHANGED <<blendVars, dispVars, pciVars>>

\* a call of cos_approx
CosApprox ==
    /\ steps = 0
    /\ \E angle \in TrigAngles :
          last' = [NoOp EXCEPT !.op = "cos_approx", !.x = angle, !.code = cos_approx(angle)]
    /\ steps' = steps + 1
    /\ UNCHANGED <<info, g_gpu, g_backbuffer, g_viewport, g_ctx, back_mem, front_mem>>
    /\ UNCHANGED <<blendVars, dispVars, pciVars>>

NextTrig == SinApprox \/ CosApprox

SpecTrig == InitTrig /\ [][NextTrig]_vars

-----------------------------------------------------------------------------
(* Start-up on any handoff record, a record with zero fields included.  The *)
(* globals start as the zeroed statics of the program, memory holds 0xAA.  *)

\* graphics.h gfx_clear: the stores of its gfx_put_pixel calls, rows first
gfx_clear(color) ==
    FlattenSeq([yi \in 1..g_ctx.height |->
        FlattenSeq([xi \in 1..g_ctx.width |-> gfx_put_pixel(xi - 1, yi - 1, color)])])

\* types.h COLOR_DARK_BG
COLOR_DARK_BG == RGB(10, 10, 25)

\* the clear loop of gpu_init applied to memory mem
gpu_init_clear_into(mem, bb) ==
    [o \in DOMAIN mem \cup (0..(gpu_init_clear_bytes(bb) - 1)) |->
        IF o < gpu_init_clear_bytes(bb) THEN 0 ELSE mem[o]]

\* handoff records: each of fb_addr, fb_width and fb_height zero or not
BootRecords ==
    {[fb_addr |-> a, fb_pitch |-> 3 * (bpp \div 8), fb_width |-> w, fb_height |-> h,
      fb_bpp |-> bpp, fb_type |-> 1] :
        a \in {0, 1073741824}, w \in {0, 3}, h \in {0, 2}, bpp \in {32, 16}}

\* the zeroed statics g_gpu, g_backbuffer, g_viewport, g_ctx
ZeroGpu ==
    [type |-> "GPU_TYPE_UNKNOWN", format |-> "PIXEL_FORMAT_UNKNOWN", framebuffer_addr |-> 0,
     width |-> 0, height |-> 0, pitch |-> 0, bpp |-> 0, bytes_per_pixel |-> 0,
     framebuffer_size |-> 0]

ZeroSurface == [width |-> 0, height |-> 0, pitch |-> 0, bpp |-> 0]

ZeroViewport == [x |-> 0, y |-> 0, width |-> 0, height |-> 0]

\* the zeroed static g_display
ZeroDisplay ==
    [width |-> 0, height |-> 0, frame_count |-> 0, fps |-> 0, last_fps_time |-> 0,
     frame_time |-> 0,
     layers |-> [i \in 0..(LAYER_COUNT - 1) |->
                    [x |-> 0, y |-> 0, width |-> 0, height |-> 0, visible |-> 0, alpha |-> 0,
                     dirty |-> 0]],
     cursor_visible |-> 0, cursor_x |-> 0, cursor_y |-> 0]

InitBoot ==
    /\ IdleBlend /\ IdlePci
    /\ info \in BootRecords
    /\ g_gpu = ZeroGpu /\ g_backbuffer = ZeroSurface /\ g_viewport = ZeroViewport
    /\ g_ctx = ZeroSurface /\ g_display = ZeroDisplay
    /\ back_mem = [o \in 0..23 |-> 170]
    /\ front_mem = [o \in 0..23 |-> 170]
    /\ layer_buf = [i \in 0..(LAYER_COUNT - 1) |->
                      [k \in 0..(IF i = LAYER_CURSOR THEN CursorSide * CursorSide - 1 ELSE 5) |->
                          <<170, 170, 170, 170>>]]
    /\ last = NoOp
    /\ steps = 0
    /\ g_tick_count = 0
    /\ comp_out = <<>>

\* a call of gpu_init
GpuInit ==
    /\ steps < MaxDisplayOps
    /\ IF gpu_init_fails(info)
       THEN UNCHANGED <<g_gpu, g_backbuffer, g_viewport, back_mem>>
       ELSE /\ g_gpu' = gpu_init_device(info)
            /\ g_backbuffer' = gpu_init_backbuffer(info)
            /\ g_viewport' = gpu_init_viewport(info)
            /\ back_mem' = gpu_init_clear_into(back_mem, gpu_init_backbuffer(info))
    /\ last' = [NoOp EXCEPT !.op = "gpu_init",
                            !.code = IF gpu_init_fails(info) THEN -1 ELSE 0]
    /\ steps' = steps + 1
    /\ UNCHANGED <<info, g_ctx, front_mem, dispVars, blendVars, pciVars>>

\* kmain of the graphics test kernel from its entry to the return of gfx_clear:
\* the safety check, gfx_init, gfx_clear(COLOR_DARK_BG)
Kmain ==
    /\ steps < MaxDisplayOps
    /\ IF info.fb_addr = 0 \/ info.fb_width = 0
       THEN /\ last' = [NoOp EXCEPT !.op = "kmain"]
            /\ UNCHANGED <<g_ctx, front_mem>>
       ELSE /\ g_ctx' = gfx_init_ctx(info)
            /\ \E st \in {gfx_clear(COLOR_DARK_BG)'} :
                  /\ front_mem' = ApplyStores(front_mem, st)
                  /\ last' = [NoOp EXCEPT !.op = "kmain", !.calls = <<"gfx_init", "gfx_clear">>,
                                          !.wr = StoreOffsets(st)]
    /\ steps' = steps + 1
    /\ UNCHANGED <<info, g_gpu, g_backbuffer, g_viewport, back_mem>>
    /\ UNCHANGED <<dispVars, blendVars, pciVars>>

NextBoot == GpuInit \/ DisplayInit \/ Kmain

SpecBoot == InitBoot /\ [][NextBoot]_vars

-----------------------------------------------------------------------------
(* The compositor over five drawn layers: the state after display_init, a  *)
(* display_layer_clear of every layer and a display_layer_set_visible(1)   *)
(* of every layer, then layer attribute changes and composites.            *)

\* number of layer attribute changes explored on a drawn scene
MaxLayerOps == 2

\* the colour layer i is cleared with, its alpha byte being a
SceneColor(i, a) == <<16 * (i + 1), 32 + i, 200 - 40 * i, a>>

\* the alpha bytes of the five clear colours: opaque or half transparent
LayerScenes == [0..(LAYER_COUNT - 1) -> {255, 128}]

\* display_layer_clear(i, ..) and display_layer_set_visible(i, 1) for the layers
\* from i on
RECURSIVE draw_scene(_, _, _, _)
draw_scene(d, bufs, scene, i) ==
    IF i >= LAYER_COUNT THEN [d |-> d, bufs |-> bufs]
    ELSE CHOOSE r \in
            {draw_scene(display_layer_set_visible(c.d, i, 1), c.bufs, scene, i + 1) :
                c \in {display_layer_clear(d, bufs, i, SceneColor(i, scene[i]))}} : TRUE

InitLayers ==
    /\ IdleBlend /\ IdlePci
    /\ \E bi \in DisplayBootInfos, scene \in LayerScenes :
       \E s \in {draw_scene(display_init_display(bi),
                            display_init_buffers(bi, <<205, 205, 205, 205>>), scene, 0)} :
          /\ info = bi
          /\ g_gpu = gpu_init_device(bi)
          /\ g_backbuffer = gpu_init_backbuffer(bi)
          /\ g_viewport = gpu_init_viewport(bi)
          /\ back_mem = gpu_init_clear(gpu_init_backbuffer(bi))
          /\ front_mem = [o \in 0..(bi.fb_pitch * bi.fb_height - 1) |-> 170]
          /\ g_display = s.d
          /\ layer_buf = s.bufs
    /\ g_ctx = "idle"
    /\ last = NoOp
    /\ steps = 0
    /\ g_tick_count = 0
    /\ comp_out = <<>>

\* layer alpha multipliers set on a drawn scene
SceneAlphas == {128, 1}

\* layer positions set on a drawn scene
ScenePositions == {<<1, 0>>, <<-1, 0>>}

LayersSetVisible ==
    /\ steps < MaxLayerOps
    /\ \E type \in 0..(LAYER_COUNT - 1), visible \in {0, 1} :
          g_display' = display_layer_set_visible(g_display, type, visible)
    /\ last' = [NoOp EXCEPT !.op = "display_layer_set_visible"]
    /\ steps' = steps + 1
    /\ UNCHANGED <<info, g_gpu, g_backbuffer, g_viewport, g_ctx, back_mem, front_mem>>
    /\ UNCHANGED <<layer_buf, g_tick_count, comp_out, blendVars, pciVars>>

LayersSetAlpha ==
    /\ steps < MaxLayerOps
    /\ \E type \in 0..(LAYER_COUNT - 1), alpha \in SceneAlphas :
          g_display' = display_layer_set_alpha(g_display, type, alpha)
    /\ last' = [NoOp EXCEPT !.op = "display_layer_set_alpha"]
    /\ steps' = steps + 1
    /\ UNCHANGED <<info, g_gpu, g_backbuffer, g_viewport, g_ctx, back_mem, front_mem>>
    /\ UNCHANGED <<layer_buf, g_tick_count, comp_out, blendVars, pciVars>>

LayersSetPosition ==
    /\ steps < MaxLayerOps
    /\ \E type \in {LAYER_MAIN, LAYER_CURSOR}, p \in ScenePositions :
          g_display' = display_layer_set_position(g_display, type, p[1], p[2])
    /\ last' = [NoOp EXCEPT !.op = "display_layer_set_position"]
    /\ steps' = steps + 1
    /\ UNCHANGED <<info, g_gpu, g_backbuffer, g_viewport, g_ctx, back_mem, front_mem>>
    /\ UNCHANGED <<layer_buf, g_tick_count, comp_out, blendVars, pciVars>>

NextLayers == LayersSetVisible \/ LayersSetAlpha \/ LayersSetPosition \/ DisplayComposite

SpecLayers == InitLayers /\ [][NextLayers]_vars



\* Background is visible and no other layer is
BackgroundOnlyVisible ==
    /\ g_display.layers[LAYER_BACKGROUND].visible # 0
    /\ \A i \in 1..(LAYER_COUNT - 1) : g_display.layers[i].visible = 0

\* the destination pixels of the display
DisplayPixels == (0..(g_display.width - 1)) \X (0..(g_display.height - 1))

\* destination pixel q maps inside the rectangle of layer i
CoveredBy(i, q) ==
    LET layer == g_display.layers[i] IN
    /\ q[1] - layer.x >= 0 /\ q[1] - layer.x < layer.width
    /\ q[2] - layer.y >= 0 /\ q[2] - layer.y < layer.height

\* the stored pixel of layer i that destination pixel q maps to
LayerPixelAt(i, q) ==
    LET layer == g_display.layers[i] IN
    layer_buf[i][(q[2] - layer.y) * layer.width + (q[1] - layer.x)]

\* the alpha of pixel p scaled by the alpha multiplier m of its layer
EffectiveAlpha(p, m) == IF m = 255 THEN p[4] ELSE (p[4] * m) \div 255

\* the Background pixel p composited alone, with effective alpha e, onto 0
BackgroundAlone(p, e) ==
    IF e = 255 THEN p
    ELSE IF e = 0 THEN Zero32
    ELSE <<(p[1] * e) \div 255, (p[2] * e) \div 255, (p[3] * e) \div 255, 0>>

\* C4 as claimed: where Background is the only visible layer, display_composite
\* writes the Background layer's stored pixel unchanged, whatever its value.
C4_Original ==
    [][ (last'.op = "display_composite" /\ BackgroundOnlyVisible)
            => \A q \in DisplayPixels :
                  CoveredBy(LAYER_BACKGROUND, q)
                      => comp_out'[q] = LayerPixelAt(LAYER_BACKGROUND, q) ]_vars

\* C4 (amended): where Background is the only visible layer, the value
\* display_composite writes for a pixel inside the Background rectangle is
\* determined by the Background pixel p and the Background alpha multiplier alone,
\* whatever the invisible layers hold: p unchanged when p's effective alpha is 255,
\* 0 when it is 0, and otherwise p's colour channels scaled by effective alpha / 255
\* with alpha byte 0; the back buffer receives that value in its pixel format.
C4_BackgroundOnly ==
    [][ (last'.op = "display_composite" /\ BackgroundOnlyVisible)
            => \A q \in DisplayPixels :
                  /\ CoveredBy(LAYER_BACKGROUND, q) =>
                        LET p == LayerPixelAt(LAYER_BACKGROUND, q)
                            e == EffectiveAlpha(p, g_display.layers[LAYER_BACKGROUND].alpha)
                        IN  /\ comp_out'[q] = BackgroundAlone(p, e)
                            /\ e = 255 => comp_out'[q] = p
                  /\ ~CoveredBy(LAYER_BACKGROUND, q) => comp_out'[q] = Zero32
                  /\ DecodePixel(g_backbuffer, back_mem', q[1], q[2])
                        = ExpectedReadback(g_backbuffer.bpp, comp_out'[q]) ]_vars

\* a composite with only Background visible, over an opaque Background pixel that
\* an invisible Main layer covers with a pixel of its own
C4_Witness ==
    /\ last.op = "display_composite" /\ BackgroundOnlyVisible
    /\ CoveredBy(LAYER_BACKGROUND, <<0, 0>>) /\ CoveredBy(LAYER_MAIN, <<0, 0>>)
    /\ LayerPixelAt(LAYER_BACKGROUND, <<0, 0>>) = <<16, 32, 48, 255>>
    /\ LayerPixelAt(LAYER_MAIN, <<0, 0>>) = <<50, 100, 200, 128>>
    /\ comp_out[<<0, 0>>] = <<16, 32, 48, 255>>

\* layer i contributes to destination pixel q: it is visible and q maps inside
\* its rectangle
Contributes(i, q) == g_display.layers[i].visible # 0 /\ CoveredBy(i, q)

\* the effective alpha of layer i at destination pixel q
EffectiveAlphaAt(i, q) == EffectiveAlpha(LayerPixelAt(i, q), g_display.layers[i].alpha)

\* the accumulator acc after layer i at destination pixel q
FoldLayer(i, q, acc) ==
    IF ~Contributes(i, q) THEN acc
    ELSE LET p == LayerPixelAt(i, q)
             e == EffectiveAlphaAt(i, q)
         IN  CASE e = 255 -> p
               [] e = 0   -> acc
               [] OTHER   -> <<BlendChannel(p[1], acc[1], e), BlendChannel(p[2], acc[2], e),
                               BlendChannel(p[3], acc[3], e), 0>>

\* the fold over Background, Main, Ui, Overlay, Cursor from the accumulator 0
FoldedPixel(q) ==
    LET a0 == FoldLayer(LAYER_BACKGROUND, q, Zero32)
        a1 == FoldLayer(LAYER_MAIN, q, a0)
        a2 == FoldLayer(LAYER_UI, q, a1)
        a3 == FoldLayer(LAYER_OVERLAY, q, a2)
    IN  FoldLayer(LAYER_CURSOR, q, a3)

\* layer i shows a pixel of effective alpha 255 at q and no layer above it
\* contributes there with a non-zero effective alpha
OpaqueOnTop(i, q) ==
    /\ Contributes(i, q) /\ EffectiveAlphaAt(i, q) = 255
    /\ \A j \in (i + 1)..(LAYER_COUNT - 1) : Contributes(j, q) => EffectiveAlphaAt(j, q) = 0

\* C18: for every destination pixel display_composite writes the fold, from the
\* accumulator 0, over Background, Main, Ui, Overlay, Cursor in that order: a
\* layer is skipped unless visible and covering the pixel, its effective alpha is
\* the source alpha scaled by layer_alpha / 255 when the layer alpha is below 255,
\* effective alpha 255 overwrites, 0 leaves the accumulator, any other value
\* blends; an opaque pixel of a layer hides every layer below it.
C18_CompositeFold ==
    [][ last'.op = "display_composite" =>
          \A q \in DisplayPixels :
             /\ comp_out'[q] = FoldedPixel(q)
             /\ DecodePixel(g_backbuffer, back_mem', q[1], q[2])
                   = ExpectedReadback(g_backbuffer.bpp, FoldedPixel(q))
             /\ \A i \in 0..(LAYER_COUNT - 1) :
                   OpaqueOnTop(i, q) => comp_out'[q] = LayerPixelAt(i, q)
      ]_vars

\* a composite of five visible layers at pixel (0, 0): Background opaque, Main
\* half transparent, Ui opaque with its layer alpha lowered to 128, Overlay and
\* Cursor half transparent; the value written is none of the five stored pixels
C18_Witness ==
    /\ last.op = "display_composite"
    /\ \A i \in 0..(LAYER_COUNT - 1) : Contributes(i, <<0, 0>>)
    /\ EffectiveAlphaAt(LAYER_BACKGROUND, <<0, 0>>) = 255
    /\ EffectiveAlphaAt(LAYER_MAIN, <<0, 0>>) = 128
    /\ LayerPixelAt(LAYER_UI, <<0, 0>>)[4] = 255 /\ g_display.layers[LAYER_UI].alpha = 128
    /\ EffectiveAlphaAt(LAYER_OVERLAY, <<0, 0>>) = 128
    /\ EffectiveAlphaAt(LAYER_CURSOR, <<0, 0>>) = 128
    /\ \A i \in 0..(LAYER_COUNT - 1) : comp_out[<<0, 0>>] # LayerPixelAt(i, <<0, 0>>)
    /\ comp_out[<<0, 0>>] = FoldedPixel(<<0, 0>>)
    /\ comp_out[<<0, 0>>][4] = 0

\* the two counters are what they were
CountersKept ==
    g_display'.frame_count = g_display.frame_count /\ g_tick_count' = g_tick_count

\* each counter is one more than it was
CountersStepped ==
    g_display'.frame_count = g_display.frame_count + 1 /\ g_tick_count' = g_tick_count + 1

\* C19 as claimed: over any sequence of display operations, initialisation
\* included, each begin_frame increases the frame counter and the tick counter by
\* one, and no other operation changes either counter.
C19_Original ==
    [][ /\ last'.op = "display_begin_frame" => CountersStepped
        /\ last'.op # "display_begin_frame" => CountersKept
        /\ g_display'.frame_count >= g_display.frame_count
        /\ g_tick_count' >= g_tick_count ]_vars

\* C19 (amended): each begin_frame increases the frame counter and the tick
\* counter by one; initialisation sets the frame counter to 0 and keeps the tick
\* counter; no other operation changes either counter.  The tick counter never
\* decreases, the frame counter only at an initialisation.
C19_FrameCounters ==
    [][ /\ last'.op = "display_begin_frame" => CountersStepped
        /\ last'.op = "display_init" =>
              g_display'.frame_count = 0 /\ g_tick_count' = g_tick_count
        /\ last'.op \notin {"display_begin_frame", "display_init"} => CountersKept
        /\ g_tick_count' >= g_tick_count
        /\ last'.op # "display_init" => g_display'.frame_count >= g_display.frame_count
      ]_vars

\* an initialisation after two frames were begun: the frame counter is back at
\* 0, the tick counter is still 2
C19_Witness ==
    /\ last.op = "display_init"
    /\ g_display.frame_count = 0
    /\ g_tick_count = 2

\* the reserved region of buffer b (a layer, or LAYER_COUNT for the back buffer)
\* for the geometry set at initialisation: width x height x 4 bytes from its
\* base address, 16 x 16 x 4 for the cursor layer
ReservedRegion(b) ==
    LET base == IF b = LAYER_COUNT THEN BACKBUFFER_ADDR ELSE layer_addrs[b]
        size == IF b = LAYER_CURSOR THEN CursorSide * CursorSide * 4
                ELSE g_display.width * g_display.height * 4
    IN  [lo |-> base, hi |-> base + size]

\* the address ranges a and b have a byte in common
Overlap(a, b) == a.lo < b.hi /\ b.lo < a.hi /\ a.lo < a.hi /\ b.lo < b.hi

\* C20: for the geometry set at initialisation (a mode up to 1024x768), the
\* reserved regions of the back buffer and the five layer buffers are pairwise
\* non-overlapping, and no store made through one buffer, the clears of
\* display_init included, touches a byte of another buffer's region.
C20_RegionsDisjoint ==
    /\ \A a, b \in 0..LAYER_COUNT :
          a # b => ~Overlap(ReservedRegion(a), ReservedRegion(b))
    /\ \A s \in last.spans : \A b \in 0..LAYER_COUNT :
          b # s.buf => ~Overlap(s, ReservedRegion(b))

\* 800x600x32: the store of display_layer_put_pixel(LAYER_BACKGROUND, 0, 0, ..)
\* goes to address 0x300000, a byte of the back buffer's region 0x200000..0x3D4BFF
C20_Witness ==
    /\ g_display.width = 800 /\ g_display.height = 600 /\ g_backbuffer.bpp = 32
    /\ last.op = "display_layer_put_pixel"
    /\ last.spans = {[buf |-> LAYER_BACKGROUND, lo |-> LAYER_BG_ADDR, hi |-> LAYER_BG_ADDR + 4]}
    /\ ReservedRegion(LAYER_COUNT) = [lo |-> 2097152, hi |-> 4017152]
    /\ \E s \in last.spans : Overlap(s, ReservedRegion(LAYER_COUNT))

\* the table indices of the registered display devices of a subclass
RegisteredDisplay(subclass) ==
    {i \in 0..(pci_device_count - 1) :
        pci_devices[i].class_code = PCI_CLASS_DISPLAY /\ pci_devices[i].subclass = subclass}

\* C22: adapter resolution selects a VGA-subclass display device whenever one is
\* registered, in either registration order, and a 3D-subclass display device
\* only when no VGA-subclass display device is registered.
C22_VgaPreferred ==
    pci_log.op = "gpu_hw_init" =>
       /\ RegisteredDisplay(PCI_SUBCLASS_VGA) # {}
             => g_gpu_hw.pci_dev \in RegisteredDisplay(PCI_SUBCLASS_VGA)
       /\ g_gpu_hw.pci_dev \in RegisteredDisplay(PCI_SUBCLASS_3D)
             => RegisteredDisplay(PCI_SUBCLASS_VGA) = {}
       /\ RegisteredDisplay(PCI_SUBCLASS_VGA) = {} /\ RegisteredDisplay(PCI_SUBCLASS_3D) # {}
             => g_gpu_hw.pci_dev \in RegisteredDisplay(PCI_SUBCLASS_3D)

\* a 3D controller registered before a VGA adapter, and the VGA adapter selected
C22_Witness ==
    /\ pci_log.op = "gpu_hw_init"
    /\ \E i \in RegisteredDisplay(PCI_SUBCLASS_3D) :
          /\ g_gpu_hw.pci_dev > i
          /\ g_gpu_hw.pci_dev \in RegisteredDisplay(PCI_SUBCLASS_VGA)

\* the registered devices with a standard (type 0) header
StandardDevices ==
    {i \in 0..(pci_device_count - 1) : BitAnd(pci_devices[i].header_type, 127) = 0}

\* C23: for every registered device with a type 0 header, a resource slot
\* classified Memory64 (bar_type 3) is followed by a slot classified Unused
\* (bar_type 0), after any sequence of enumerations, re-enumeration of a changed
\* bus included.
C23_Mem64ConsumesNext ==
    \A i \in StandardDevices : \A k \in 1..5 :
        pci_devices[i].bar_type[k] = 3 => pci_devices[i].bar_type[k + 1] = 0

\* after a second enumeration, a registered device whose slot 0 is Memory64 and
\* whose slot 1 is classified IoPort
C23_Witness ==
    /\ pci_log.op = "pci_enumerate" /\ pci_log.n = 2
    /\ \E i \in StandardDevices :
          /\ pci_devices[i].bar_type[1] = 3
          /\ pci_devices[i].bar_type[2] = 1

\* the last operation drew a line
LineDrawn == last.op \in {"gfx_draw_line", "gpu_draw_line"}

SameIndexTwice ==
    /\ pci_device_count = pci_log.base + 2
    /\ \E v \in pci_log.writes, w \in pci_log.writes :
          v[1] = w[1] /\ <<v[2], v[3]>> # <<w[2], w[3]>>

\* C25: device registration is not reentrant: a device count above 32, or two
\* distinct devices stored at one table index while the count advances by two,
\* is reached when two registrations interleave and never when one registration
\* runs after the other.
C25_NotReentrant ==
    (pci_device_count > PCI_MAX_DEVICES \/ SameIndexTwice) => pci_log.overlap

\* two interleaved registrations on a table with one entry left: both stored at
\* index 31 and the count is 33
C25_Witness ==
    /\ pci_log.overlap
    /\ \A p \in RegProcs : pci_calls[p].pc = "done" /\ pci_calls[p].ret = 1
    /\ pci_device_count = PCI_MAX_DEVICES + 1
    /\ SameIndexTwice

\* the adapter kinds naming a concrete adapter
ConcreteKinds ==
    {GPU_HW_BOCHS, GPU_HW_VMWARE_SVGA, GPU_HW_VIRTIO_GPU, GPU_HW_INTEL, GPU_HW_AMD, GPU_HW_NVIDIA}

\* the identity register of the Dispi interface answers a value in ID0..ID5
IdentityKnown ==
    /\ bochs_regs.reg[VBE_DISPI_INDEX_ID] >= VBE_DISPI_ID0
    /\ bochs_regs.reg[VBE_DISPI_INDEX_ID] <= VBE_DISPI_ID5

\* a display device was selected and the vendor chain left its kind open: the
\* vendor is none of the five tested, or it is the QEMU/Bochs one and the
\* identity register is outside the known range
KindLeftOpen ==
    /\ g_gpu_hw.pci_dev # NullDev
    /\ LET v == pci_devices[g_gpu_hw.pci_dev].vendor_id IN
       \/ v \notin {PCI_VENDOR_QEMU, PCI_VENDOR_BOCHS, PCI_VENDOR_VMWARE, PCI_VENDOR_INTEL,
                    PCI_VENDOR_AMD, PCI_VENDOR_NVIDIA}
       \/ v \in {PCI_VENDOR_QEMU, PCI_VENDOR_BOCHS} /\ ~IdentityKnown

\* C26 as stated: on return from gpu_hw_init the kind is never GPU_HW_NONE, the
\* return value is 0 exactly when the kind is a concrete adapter and -1 exactly
\* when it is GPU_HW_VBE.
C26_Original ==
    pci_log.op = "gpu_hw_init" =>
       /\ g_gpu_hw.type # GPU_HW_NONE
       /\ hw_ret = 0 <=> g_gpu_hw.type \in ConcreteKinds
       /\ hw_ret = -1 <=> g_gpu_hw.type = GPU_HW_VBE

\* C26: on return from gpu_hw_init the kind is GPU_HW_NONE exactly when a
\* display device was selected whose vendor chain left the kind open; the return
\* value is 0 exactly when the kind is GPU_HW_NONE or a concrete adapter and -1
\* exactly when it is GPU_HW_VBE.
C26_InitKind ==
    pci_log.op = "gpu_hw_init" =>
       /\ g_gpu_hw.type = GPU_HW_NONE <=> KindLeftOpen
       /\ hw_ret = 0 <=> g_gpu_hw.type \in ConcreteKinds \cup {GPU_HW_NONE}
       /\ hw_ret = -1 <=> g_gpu_hw.type = GPU_HW_VBE

\* gpu_hw_init returned 0 on a VirtIO display device and the kind is GPU_HW_NONE
C26_Witness ==
    /\ pci_log.op = "gpu_hw_init"
    /\ hw_ret = 0 /\ g_gpu_hw.type = GPU_HW_NONE
    /\ g_gpu_hw.pci_dev # NullDev
    /\ pci_devices[g_gpu_hw.pci_dev].vendor_id = PCI_VENDOR_VIRTIO

\* the Display's cursor fields of display d
CursorFields(d) == <<d.cursor_visible, d.cursor_x, d.cursor_y>>

\* cursor_visible equals the Cursor layer's visible flag
CursorVisibleAgrees(d) == d.cursor_visible = d.layers[LAYER_CURSOR].visible

\* (cursor_x, cursor_y) equals the Cursor layer's position
CursorPositionAgrees(d) ==
    d.cursor_x = d.layers[LAYER_CURSOR].x /\ d.cursor_y = d.layers[LAYER_CURSOR].y

\* C27 as stated: in every state from the end of display_init onward the cursor
\* state agrees with the Cursor layer in visibility and in position.
C27_Original == CursorVisibleAgrees(g_display) /\ CursorPositionAgrees(g_display)

\* C27: display_set_cursor_visible leaves cursor_visible equal to the Cursor
\* layer's visible flag, display_set_cursor_position leaves (cursor_x, cursor_y)
\* equal to the Cursor layer's position, display_init leaves both visibilities 0,
\* the cursor at the screen centre and the Cursor layer at (0, 0), and the layer
\* functions leave the Display's cursor fields as they are.
C27_CursorSync ==
    [][ /\ last'.op = "display_set_cursor_visible" =>
              /\ CursorVisibleAgrees(g_display')
              /\ g_display'.cursor_x = g_display.cursor_x
              /\ g_display'.cursor_y = g_display.cursor_y
              /\ g_display'.layers[LAYER_CURSOR].x = g_display.layers[LAYER_CURSOR].x
              /\ g_display'.layers[LAYER_CURSOR].y = g_display.layers[LAYER_CURSOR].y
        /\ last'.op = "display_set_cursor_position" =>
              /\ CursorPositionAgrees(g_display')
              /\ g_display'.cursor_visible = g_display.cursor_visible
              /\ g_display'.layers[LAYER_CURSOR].visible = g_display.layers[LAYER_CURSOR].visible
        /\ (last'.op = "display_init" /\ last'.code = 0) =>
              /\ g_display'.cursor_visible = 0 /\ g_display'.layers[LAYER_CURSOR].visible = 0
              /\ g_display'.cursor_x = g_display'.width \div 2
              /\ g_display'.cursor_y = g_display'.height \div 2
              /\ g_display'.layers[LAYER_CURSOR].x = 0 /\ g_display'.layers[LAYER_CURSOR].y = 0
        /\ last'.op \in {"display_layer_set_visible", "display_layer_set_position"} =>
              CursorFields(g_display') = CursorFields(g_display)
      ]_vars

\* the cursor shown and moved through the cursor functions: both pairs agree,
\* away from the values display_init left
C27_Witness ==
    /\ last.op = "display_set_cursor_position"
    /\ g_display.cursor_visible = 1 /\ g_display.cursor_x = 0
    /\ CursorVisibleAgrees(g_display) /\ CursorPositionAgrees(g_display)

\* the attributes of layer t of display d
LayerAttrs(d, t) ==
    <<d.layers[t].x, d.layers[t].y, d.layers[t].width, d.layers[t].height,
      d.layers[t].visible, d.layers[t].alpha>>

\* the six layer operations
LayerOps ==
    {"display_layer_set_visible", "display_layer_set_alpha", "display_layer_set_position",
     "display_layer_clear", "display_layer_put_pixel", "display_layer_fill_rect"}

\* C28: a layer operation (set_visible, set_alpha, set_position, clear,
\* put_pixel, fill_rect) that changes a layer's pixels or attributes leaves that
\* layer's dirty flag set, so a layer whose flag is clear was not modified since
\* the flag was cleared.
C28_DirtyOnChange ==
    [][ last'.op \in LayerOps =>
          \A t \in 0..(LAYER_COUNT - 1) :
             (layer_buf'[t] # layer_buf[t] \/ LayerAttrs(g_display', t) # LayerAttrs(g_display, t))
                => g_display'.layers[t].dirty = 1
      ]_vars

\* a pixel of a layer was stored by display_layer_put_pixel and the layer's
\* dirty flag is clear
C28_Witness ==
    /\ last.op = "display_layer_put_pixel"
    /\ \E t \in DirtyLayers :
          /\ g_display.layers[t].dirty = 0
          /\ layer_buf[t][0] = DirtyColor

\* C29: for every integer angle, negative ones and ones of 360 or more
\* included, sin_approx(angle) and cos_approx(angle) lie in [-256, 256].
C29_TrigRange ==
    last.op \in {"sin_approx", "cos_approx"} => last.code \in (-256)..256

\* sin_approx(90) returned 512
C29_Witness ==
    last.op = "sin_approx" /\ last.x = 90 /\ last.code = 512

\* the pixels of the surface: 0 <= x < width, 0 <= y < height
SurfacePixels == (0..(g_backbuffer.width - 1)) \X (0..(g_backbuffer.height - 1))

\* C30: under any viewport installed through gpu_set_viewport and for any
\* rectangle, gpu_present_rect reads only bytes of back-buffer pixels of the
\* surface and writes only the corresponding front-buffer bytes.
C30_PresentRectInSurface ==
    [][ last'.op = "gpu_present_rect" =>
          /\ last'.rd \subseteq BytesOfPixels(SurfacePixels, g_backbuffer.pitch, g_backbuffer.bpp)
          /\ last'.wr \subseteq BytesOfPixels(SurfacePixels, g_gpu.pitch, g_backbuffer.bpp)
          /\ \A o \in DOMAIN front_mem :
                o \notin BytesOfPixels(SurfacePixels, g_gpu.pitch, g_backbuffer.bpp)
                   => front_mem'[o] = front_mem[o]
      ]_vars

\* gpu_present_rect under the viewport (0, 0, 5, 4) of a 3x2 surface: bytes past
\* the end of the back buffer were read and a byte that is no front-buffer pixel
\* changed
C30_Witness ==
    /\ last.op = "gpu_present_rect"
    /\ g_viewport = [x |-> 0, y |-> 0, width |-> 5, height |-> 4]
    /\ \E o \in last.rd : o >= g_backbuffer.pitch * g_backbuffer.height
    /\ \E o \in DOMAIN front_mem :
          /\ o \notin BytesOfPixels(SurfacePixels, g_gpu.pitch, g_backbuffer.bpp)
          /\ o \in last.wr
          /\ front_mem[o] # 170

\* the handoff record has a zero in fb_addr, fb_width or fb_height
ZeroRecord == info.fb_addr = 0 \/ info.fb_width = 0 \/ info.fb_height = 0

\* the surfaces, the viewport, the layers, the display state and every buffer
\* byte are what they were
RenderStateKept ==
    /\ g_gpu' = g_gpu /\ g_backbuffer' = g_backbuffer /\ g_viewport' = g_viewport
    /\ g_ctx' = g_ctx /\ g_display' = g_display /\ layer_buf' = layer_buf
    /\ back_mem' = back_mem /\ front_mem' = front_mem

\* C21: with a zero in fb_addr, fb_width or fb_height, gpu_init and display_init
\* return -1 leaving all surface, viewport, layer and display state unchanged and
\* writing no buffer byte, and kmain halts without initialising graphics or
\* issuing a drawing call.
C21_ZeroRecordStops ==
    [][ ZeroRecord =>
          /\ last'.op \in {"gpu_init", "display_init"} => last'.code = -1 /\ RenderStateKept
          /\ last'.op = "kmain" => last'.calls = <<>> /\ RenderStateKept
      ]_vars

\* kmain on a record with fb_height 0 and the other fields set: the graphics
\* context was initialised and gfx_clear was called
C21_Witness ==
    /\ info.fb_height = 0 /\ info.fb_addr # 0 /\ info.fb_width # 0
    /\ last.op = "kmain"
    /\ last.calls = <<"gfx_init", "gfx_clear">>
    /\ g_ctx.width = info.fb_width /\ g_ctx.height = 0


=============================================================================
